---- MODULE Spec2Model ----
(***************************************************************************)
(* A model of the school research assistant (yasmina222/PropTech):         *)
(*   - the Record Normalizer coercions of data_loader.py,                  *)
(*   - the priority functions of models_v2.py,                             *)
(*   - the three-source CSV merge and the loader cache of data_loader.py,  *)
(*   - the Ofsted analysis pipeline and the regex extractors of            *)
(*     Chains/OfstedChains.py,                                             *)
(*   - the dashboard session of streamlit_app_v2.py.                       *)
(*                                                                         *)
(* Python strings are sequences of one-character strings, so that strip,   *)
(* lower, float(), int() and str() are computed rather than assumed.       *)
(* Optional values are tagged records: None, Str(s), IntV(n), a float       *)
(* record, or Raise(e) for an exception that leaves the function.          *)
(***************************************************************************)
EXTENDS Integers, Sequences, FiniteSets, TLC

VARIABLES
    mode,        \* which part of the program this behaviour exercises
    nIn,         \* the raw value handed to a coercion, or the report text
    nOut,        \* the last coercion or extractor applied and what it returned
    fdata,       \* a FinancialData object
    sdata,       \* a SENDData object
    pOut,        \* the last priority method called and what it returned
    gias_csv,    \* the directory (GIAS) file: a sequence of rows
    fin_csv,     \* the financial file: a sequence of rows
    send_csv,    \* the SEND file: a sequence of rows
    cache,       \* DataLoader._schools_cache
    by_name,     \* DataLoader._schools_by_name
    by_urn,      \* DataLoader._schools_by_urn
    ret,         \* the last loader call and what it returned (or raised)
    edits,       \* how many times the files were edited since the start
    pc,          \* stepwise refresh: the refreshing thread's position
    built,       \* stepwise refresh: the local variable `schools` of load()
    seen,        \* stepwise refresh: what the observing thread read
    old,         \* stepwise refresh: the dataset when refresh() was called
    env,         \* Ofsted: the outcomes of the external steps
    result,      \* Ofsted: what analyze returned (or that it raised)
    shortlist,   \* dashboard: st.session_state.shortlist, in insertion order
    view,        \* dashboard: st.session_state.view
    selected_urn,\* dashboard: st.session_state.selected_urn
    store,       \* dashboard: the School objects read by identifier
    appCall,     \* dashboard: the last user action and what it produced
    query_params \* dashboard: st.query_params, the 'urn' of the page URL

vars == <<mode, nIn, nOut, fdata, sdata, pOut, gias_csv, fin_csv, send_csv,
          cache, by_name, by_urn, ret, edits, pc, built, seen, old, env,
          result, shortlist, view, selected_urn, store, appCall, query_params>>

normVars == <<nIn, nOut>>
prioVars == <<fdata, sdata, pOut>>
fileVars == <<gias_csv, fin_csv, send_csv>>
loaderVars == <<cache, by_name, by_urn>>
stepVars == <<pc, built, seen, old>>
ofstedVars == <<env, result>>
appVars == <<shortlist, view, selected_urn, store, appCall, query_params>>

(***************************************************************************)
(* Python values                                                           *)
(***************************************************************************)
None == [tag |-> "None"]
Str(s) == [tag |-> "str", v |-> s]
IntV(n) == [tag |-> "int", v |-> n]
Raise(e) == [tag |-> "raise", exc |-> e]
\* A float: kind "fin" (whole part and fraction digits, trailing zeros cut),
\* "inf" or "nan".
Flt(k, w, fr) == [tag |-> "float", kind |-> k, whole |-> w, frac |-> fr]

IsNone(x) == x.tag = "None"
IsStr(x) == x.tag = "str"
IsRaise(x) == x.tag = "raise"

Digits == <<"0", "1", "2", "3", "4", "5", "6", "7", "8", "9">>
DigitSet == {Digits[i] : i \in 1..10}
IsDigit(c) == c \in DigitSet
DigitVal(c) == (CHOOSE i \in 1..10 : Digits[i] = c) - 1

\* str.lower() on the letters the model uses.
LowerChar(c) ==
    CASE c = "N" -> "n"
      [] c = "A" -> "a"
      [] c = "X" -> "x"
      [] c = "M" -> "m"
      [] c = "S" -> "s"
      [] c = "W" -> "w"
      [] OTHER -> c
Lower(s) == [i \in DOMAIN s |-> LowerChar(s[i])]

IsSpace(c) == c = " "

RECURSIVE LStrip(_)
LStrip(s) == IF s # <<>> /\ IsSpace(Head(s)) THEN LStrip(Tail(s)) ELSE s
RECURSIVE RStrip(_)
RStrip(s) ==
    IF s # <<>> /\ IsSpace(s[Len(s)]) THEN RStrip(SubSeq(s, 1, Len(s) - 1)) ELSE s
\* str.strip()
Strip(s) == RStrip(LStrip(s))

RECURSIVE DigitsVal(_)
DigitsVal(s) ==
    IF s = <<>> THEN 0
    ELSE 10 * DigitsVal(SubSeq(s, 1, Len(s) - 1)) + DigitVal(s[Len(s)])

RECURSIVE CutZeros(_)
CutZeros(s) ==
    IF s # <<>> /\ s[Len(s)] = "0" THEN CutZeros(SubSeq(s, 1, Len(s) - 1)) ELSE s

\* str(n) for an int n >= 0.
RECURSIVE IntToStr(_)
IntToStr(n) ==
    IF n < 10 THEN <<Digits[n + 1]>>
    ELSE IntToStr(n \div 10) \o <<Digits[(n % 10) + 1]>>

\* float(s) of Python on the strings of the model: surrounding whitespace is
\* ignored; "inf", "infinity" and "nan" are accepted in any letter case;
\* otherwise digits with at most one point and at least one digit.  Anything
\* else raises ValueError.
PyFloatStripped(t) ==
    LET low == Lower(t)
        dots == {i \in DOMAIN t : t[i] = "."}
        numeric == /\ t # <<>>
                   /\ \A i \in DOMAIN t : IsDigit(t[i]) \/ t[i] = "."
                   /\ Cardinality(dots) <= 1
                   /\ \E i \in DOMAIN t : IsDigit(t[i])
        dot == IF dots = {} THEN Len(t) + 1 ELSE CHOOSE i \in dots : TRUE
    IN  IF low = <<"n", "a", "n">> THEN Flt("nan", 0, <<>>)
        ELSE IF low = <<"i", "n", "f">>
                \/ low = <<"i", "n", "f", "i", "n", "i", "t", "y">>
             THEN Flt("inf", 0, <<>>)
        ELSE IF numeric
             THEN Flt("fin", DigitsVal(SubSeq(t, 1, dot - 1)),
                      CutZeros(SubSeq(t, dot + 1, Len(t))))
        ELSE Raise("ValueError")

PyFloat(s) == PyFloatStripped(Strip(s))

\* int(f) of a float: truncation; OverflowError on an infinity, ValueError on
\* a NaN.
PyInt(f) ==
    CASE f.kind = "fin" -> IntV(f.whole)
      [] f.kind = "inf" -> Raise("OverflowError")
      [] f.kind = "nan" -> Raise("ValueError")

\* int(f) of what float() gave: its exception, or that of int().
PyIntOf(f) == IF IsRaise(f) THEN f ELSE PyInt(f)

\* int(float(v)) with the exception of either step.
IntOfFloat(s) == PyIntOf(PyFloat(s))

\* value is None or value == '' or str(value).lower() in words
IsBlankOr(value, words) ==
    \/ IsNone(value)
    \/ value.v = <<>>
    \/ Lower(value.v) \in words

NanWord == {<<"n", "a", "n">>}
SuppressedWords == {<<"n", "a", "n">>, <<"x">>, <<"z">>, <<"c">>}

(***************************************************************************)
(* Record Normalizer (data_loader.py)                                      *)
(***************************************************************************)
\* except (ValueError, TypeError): the OverflowError of int() is not caught.
\* The try/except of _clean_urn around i = int(float(urn)).
CleanedText(i, urn) ==
    IF IsRaise(i)
    THEN IF i.exc = "ValueError" THEN Str(Strip(urn.v)) ELSE i
    ELSE Str(IntToStr(i.v))

clean_urn(urn) ==
    IF IsBlankOr(urn, NanWord) THEN None ELSE CleanedText(IntOfFloat(urn.v), urn)

\* except (ValueError, TypeError): return None
NoneOnValueError(x) == IF IsRaise(x) /\ x.exc = "ValueError" THEN None ELSE x

safe_float(value) ==
    IF IsBlankOr(value, NanWord) THEN None ELSE NoneOnValueError(PyFloat(value.v))

safe_int(value) ==
    IF IsBlankOr(value, SuppressedWords) THEN None
    ELSE NoneOnValueError(IntOfFloat(value.v))

\* dict.get(key): a row is a function from the column names it has to strings.
Get(row, key) == IF key \in DOMAIN row THEN Str(row[key]) ELSE None

\* Python `a or b` on optional strings: the empty string and None are falsy.
Or(a, b) == IF IsNone(a) \/ a.v = <<>> THEN b ELSE a

RECURSIVE get_value(_, _)
get_value(row, keys) ==
    IF keys = <<>> THEN None
    ELSE LET value == Get(row, Head(keys))
         IN  IF ~IsBlankOr(value, NanWord) THEN Str(Strip(value.v))
             ELSE get_value(row, Tail(keys))

StartsWith(s, p) == Len(s) >= Len(p) /\ SubSeq(s, 1, Len(p)) = p
EndsWith(s, p) == Len(s) >= Len(p) /\ SubSeq(s, Len(s) - Len(p) + 1, Len(s)) = p

PhoneLen == 10

\* if phone.endswith('.0'): phone = phone[:-2]
CutPointZero(p) == IF EndsWith(p, <<".", "0">>) THEN SubSeq(p, 1, Len(p) - 2) ELSE p

\* The two London groupings of a ten-character number.
Grouped(p) ==
    IF StartsWith(p, <<"2", "0">>) /\ Len(p) = PhoneLen
    THEN <<"0", "2", "0", " ">> \o SubSeq(p, 3, 6) \o <<" ">> \o SubSeq(p, 7, Len(p))
    ELSE IF StartsWith(p, <<"2">>) /\ Len(p) = PhoneLen
    THEN <<"0", "2", "0", " ">> \o SubSeq(p, 2, 5) \o <<" ">> \o SubSeq(p, 6, Len(p))
    ELSE p

\* return phone if phone else None
StrOrNone(p) == IF p # <<>> THEN Str(p) ELSE None

clean_phone(phone) ==
    IF IsNone(phone) THEN None ELSE StrOrNone(Grouped(CutPointZero(Strip(phone.v))))


(***************************************************************************)
(* Priority functions (models_v2.py)                                       *)
(***************************************************************************)
HighThreshold == 500000
MediumThreshold == 200000

\* spend >= n for a float spend and an int n >= 0: an infinity is above every
\* n, a NaN compares False with everything.
FloatGE(f, n) ==
    CASE f.kind = "fin" -> f.whole >= n
      [] f.kind = "inf" -> TRUE
      [] f.kind = "nan" -> FALSE

\* get_priority_level with the upper threshold compared strictly.
get_priority_level_strict(fd) ==
    LET spend == fd.total_teaching_support_costs
    IN  IF IsNone(spend) THEN "UNKNOWN"
        ELSE IF FloatGE(spend, HighThreshold + 1) THEN "HIGH"
        ELSE IF FloatGE(spend, MediumThreshold) THEN "MEDIUM"
        ELSE "LOW"

\* FinancialData.get_priority_level
get_priority_level(fd) ==
    LET spend == fd.total_teaching_support_costs
    IN  IF IsNone(spend) THEN "UNKNOWN"
        ELSE IF FloatGE(spend, HighThreshold) THEN "HIGH"
        ELSE IF FloatGE(spend, MediumThreshold) THEN "MEDIUM"
        ELSE "LOW"

\* Python `x or 0` on an optional int.
OrZero(x) == IF IsNone(x) THEN 0 ELSE x.v

UnitPoints == 50
EhcWeight == 3
SenSupportWeight == 1
NeedWeight == 2

\* get_send_priority_score with the two facility flags in one if/elif.
get_send_priority_score_elif(sd) ==
    (IF sd.has_sen_unit \/ sd.has_resourced_provision THEN UnitPoints ELSE 0)
    + OrZero(sd.ehc_plan) * EhcWeight
    + OrZero(sd.sen_support) * SenSupportWeight
    + OrZero(sd.ehc_asd) * NeedWeight
    + OrZero(sd.ehc_semh) * NeedWeight

\* SENDData.get_send_priority_score
get_send_priority_score(sd) ==
    (IF sd.has_sen_unit THEN UnitPoints ELSE 0)
    + (IF sd.has_resourced_provision THEN UnitPoints ELSE 0)
    + OrZero(sd.ehc_plan) * EhcWeight
    + OrZero(sd.sen_support) * SenSupportWeight
    + OrZero(sd.ehc_asd) * NeedWeight
    + OrZero(sd.ehc_semh) * NeedWeight

(***************************************************************************)
(* Idle values of the variables a behaviour does not use                   *)
(***************************************************************************)
NoCall == [fn |-> "none", arg |-> None, ret |-> None]
NoFinancial == [total_teaching_support_costs |-> None, total_expenditure |-> None]
NoSend == [total_pupils |-> None, sen_support |-> None, ehc_plan |-> None,
           has_sen_unit |-> FALSE, has_resourced_provision |-> FALSE,
           ehc_asd |-> None, ehc_semh |-> None]

NormIdle == nIn = None /\ nOut = NoCall
PrioIdle == fdata = NoFinancial /\ sdata = NoSend /\ pOut = NoCall
FilesIdle == gias_csv = <<>> /\ fin_csv = <<>> /\ send_csv = <<>> /\ edits = 0
LoaderIdle ==
    /\ cache = None
    /\ by_name = [k \in {} |-> None]
    /\ by_urn = [k \in {} |-> None]
    /\ ret = NoCall
StepIdle == pc = "idle" /\ built = None /\ seen = None /\ old = None
OfstedIdle == env = None /\ result = None
AppIdle ==
    /\ shortlist = <<>>
    /\ view = "list"
    /\ selected_urn = None
    /\ store = [k \in {} |-> None]
    /\ query_params = None
    /\ appCall = NoCall

(***************************************************************************)
(* The coercions applied to one raw value                                  *)
(***************************************************************************)
MaxLen == 3
Chars == {"0", "1", ".", " ", "n", "a", "N", "i", "f", "x"}
Strings == UNION {[1..n -> Chars] : n \in 0..MaxLen}

\* Telephone values as the directory file holds them.
PhoneSamples ==
    { <<"2", "0", "1", "2", "3", "4", "5", "6", "7", "8">>,
      <<"2", "0", "1", "2", "3", "4", "5", "6", "7", "8", ".", "0">>,
      <<"2", "1", "2", "3", "4", "5", "6", "7", "8", "9">>,
      <<" ", "2", "0", "1", "2", "3", "4", "5", "6", "7", "8">>,
      <<"0", "2", "0", " ", "1", "2", "3", "4">> }

NormInputs == {None} \cup {Str(s) : s \in Strings \cup PhoneSamples}

Call(f, a, r) == [fn |-> f, arg |-> a, ret |-> r]

\* The row {'school_name': value}; a missing field of a short CSV line is None.
RowOf(value) == IF IsNone(value) THEN <<>> ELSE [k \in {"school_name"} |-> value.v]
NameKeys == <<"school_name", "SchoolName", "school_name_gias">>

InitNorm ==
    /\ mode = "norm"
    /\ nIn \in NormInputs
    /\ nOut = NoCall
    /\ PrioIdle /\ FilesIdle /\ LoaderIdle /\ StepIdle /\ OfstedIdle /\ AppIdle

NormFrame == UNCHANGED <<mode, nIn, prioVars, fileVars, loaderVars, ret, edits,
                         stepVars, ofstedVars, appVars>>

CleanUrn ==
    /\ mode = "norm"
    /\ nOut' = Call("_clean_urn", nIn, clean_urn(nIn))
    /\ NormFrame

\* _clean_urn applied to what _clean_urn returned.
CleanUrnAgain ==
    /\ mode = "norm"
    /\ nOut.fn = "_clean_urn"
    /\ ~IsRaise(nOut.ret)
    /\ nOut' = Call("_clean_urn twice", nOut.ret, clean_urn(nOut.ret))
    /\ NormFrame

SafeFloat ==
    /\ mode = "norm"
    /\ nOut' = Call("_safe_float", nIn, safe_float(nIn))
    /\ NormFrame

SafeInt ==
    /\ mode = "norm"
    /\ nOut' = Call("_safe_int", nIn, safe_int(nIn))
    /\ NormFrame

GetValue ==
    /\ mode = "norm"
    /\ nOut' = Call("_get_value", nIn, get_value(RowOf(nIn), NameKeys))
    /\ NormFrame

CleanPhone ==
    /\ mode = "norm"
    /\ nOut' = Call("_clean_phone", nIn, clean_phone(nIn))
    /\ NormFrame

NextNorm ==
    \/ CleanUrn
    \/ CleanUrnAgain
    \/ SafeFloat
    \/ SafeInt
    \/ GetValue
    \/ CleanPhone

SpecNorm == InitNorm /\ [][NextNorm]_vars

(***************************************************************************)
(* The priority methods called on one object                               *)
(***************************************************************************)
MaxCount == 1
CostSamples == {0, 1, 199999, 200000, 200001, 499999, 500000, 500001, 550000}
CostValues ==
    {None, Flt("inf", 0, <<>>), Flt("nan", 0, <<>>), Flt("fin", 499999, <<"5">>),
     Flt("fin", 199999, <<"9">>)}
    \cup {Flt("fin", n, <<>>) : n \in CostSamples}
ExpenditureValues == {None, Flt("fin", 0, <<>>), Flt("fin", 600000, <<>>)}
FinancialObjects ==
    [total_teaching_support_costs : CostValues, total_expenditure : ExpenditureValues]

CountValues == {None, IntV(10)} \cup {IntV(n) : n \in 0..MaxCount}
SendObjects ==
    [total_pupils : {None, IntV(100)}, sen_support : CountValues,
     ehc_plan : CountValues, has_sen_unit : BOOLEAN,
     has_resourced_provision : BOOLEAN, ehc_asd : CountValues,
     ehc_semh : CountValues]

InitPrio ==
    /\ mode = "prio"
    /\ \/ fdata \in FinancialObjects /\ sdata = NoSend
       \/ fdata = NoFinancial /\ sdata \in SendObjects
    /\ pOut = NoCall
    /\ NormIdle /\ FilesIdle /\ LoaderIdle /\ StepIdle /\ OfstedIdle /\ AppIdle

PrioFrame == UNCHANGED <<mode, fdata, sdata, normVars, fileVars, loaderVars, ret,
                         edits, stepVars, ofstedVars, appVars>>

GetPriorityLevel ==
    /\ mode = "prio"
    /\ pOut' = Call("get_priority_level", fdata, get_priority_level(fdata))
    /\ PrioFrame

GetSendPriorityScore ==
    /\ mode = "prio"
    /\ pOut' = Call("get_send_priority_score", sdata, get_send_priority_score(sdata))
    /\ PrioFrame

NextPrio ==
    \/ GetPriorityLevel
    \/ GetSendPriorityScore

SpecPrio == InitPrio /\ [][NextPrio]_vars

(***************************************************************************)
(* Multi-Source Merger (data_loader.py)                                    *)
(*                                                                         *)
(* A CSV file is the sequence of its rows, a row (a dict of csv.DictReader)*)
(* a function from column names to strings.  Of a School the model keeps   *)
(* the identifier, the name, the pupil count, the financial figures and    *)
(* the SEND object; the remaining fields are further _get_value lookups on *)
(* the merged row.                                                         *)
(***************************************************************************)
EmptyDict == [k \in {} |-> None]
Truthy(d) == DOMAIN d # {}

\* d[k] = v of a Python dict
Put(d, k, v) == [x \in DOMAIN d \cup {k} |-> IF x = k THEN v ELSE d[x]]

SuccessWord == <<"s", "u", "c", "c", "e", "s", "s">>

\* No status is taken for a reason to skip the row.
NotSuccess_never(status) == FALSE

\* if row.get('status') and row.get('status') != 'success': continue
NotSuccess(status) == ~IsNone(status) /\ status.v # <<>> /\ status.v # SuccessWord

\* The loop of _load_gias_csv / _load_financial_csv / _load_send_csv over the
\* rows left, with the dict built so far: a row whose identifier cleans to
\* None or '' is skipped, a later row of an identifier replaces an earlier
\* one, and an exception of _clean_urn leaves the loop.  `first` and `second`
\* are the two identifier columns in the order the loader tries them;
\* `statusChecked` is the status test of the financial loader.
RECURSIVE LoadRows(_, _, _, _, _)
RECURSIVE AddRow(_, _, _, _, _, _)
LoadRows(rows, data, first, second, statusChecked) ==
    IF rows = <<>> THEN [tag |-> "dict", v |-> data]
    ELSE IF statusChecked /\ NotSuccess(Get(Head(rows), "status"))
         THEN LoadRows(Tail(rows), data, first, second, statusChecked)
    ELSE AddRow(rows, data, first, second, statusChecked,
                clean_urn(Or(Get(Head(rows), first), Get(Head(rows), second))))

\* `if urn: data[urn] = row` for the first of `rows`, and on to the next row.
AddRow(rows, data, first, second, statusChecked, urn) ==
    IF IsRaise(urn) THEN urn
    ELSE IF IsNone(urn) \/ urn.v = <<>>
         THEN LoadRows(Tail(rows), data, first, second, statusChecked)
    ELSE LoadRows(Tail(rows), Put(data, urn.v, Head(rows)), first, second,
                  statusChecked)

load_gias_csv(rows) == LoadRows(rows, EmptyDict, "urn", "URN", FALSE)
load_financial_csv(rows) == LoadRows(rows, EmptyDict, "URN", "urn", TRUE)
load_send_csv(rows) == LoadRows(rows, EmptyDict, "URN", "urn", FALSE)

\* dict.get(urn, {})
GetRow(data, urn) == IF urn \in DOMAIN data THEN data[urn] ELSE EmptyDict

\* {**a, **b}: the value of b wins for a key of both.
DictMerge(a, b) ==
    [k \in DOMAIN a \cup DOMAIN b |-> IF k \in DOMAIN b THEN b[k] ELSE a[k]]

\* The merged row with the financial values laid over the directory ones.
MergedRow_financial_last(gias, fin, send) ==
    [cols |-> DictMerge(gias, fin), financial |-> fin, send |-> send]

\* merged = {**fin, **gias}; merged['_financial'] = fin if fin;
\* merged['_send'] = send if send
MergedRow(gias, fin, send) ==
    [cols |-> DictMerge(fin, gias), financial |-> fin, send |-> send]

\* row.get('_financial', row)
FinancialRow(row) == IF Truthy(row.financial) THEN row.financial ELSE row.cols

\* School <urn>
DefaultName(urn) == <<"S", "c", "h", "o", "o", "l", " ">> \o urn

OneWord == <<"1">>

\* SENDData(...) of _merged_row_to_school; a missing SEN_Unit / RP_Unit column
\* reads '0'.
SendOf(send_row) ==
    LET unit == IF "SEN_Unit" \in DOMAIN send_row THEN send_row["SEN_Unit"] ELSE <<"0">>
        rp == IF "RP_Unit" \in DOMAIN send_row THEN send_row["RP_Unit"] ELSE <<"0">>
    IN  [total_pupils |-> safe_int(Get(send_row, "Total pupils")),
         sen_support |-> safe_int(Get(send_row, "SEN support")),
         ehc_plan |-> safe_int(Get(send_row, "EHC plan")),
         has_sen_unit |-> Strip(unit) = OneWord,
         has_resourced_provision |-> Strip(rp) = OneWord,
         ehc_asd |-> safe_int(Get(send_row, "EHC_Primary_need_asd")),
         ehc_semh |-> safe_int(Get(send_row, "EHC_Primary_need_semh"))]

SendRaises(sd) ==
    \E f \in {"total_pupils", "sen_support", "ehc_plan", "ehc_asd", "ehc_semh"} :
        IsRaise(sd[f])

\* self._get_value(row, 'school_name', ...) or f"School {urn}"
NameOr(name, urn) == IF IsNone(name) \/ name.v = <<>> THEN DefaultName(urn) ELSE name.v

\* FinancialData(...) of _merged_row_to_school, fin being
\* row.get('_financial', row).
FinancialOf(fin, row) ==
    [total_pupils |->
         safe_float(Or(Get(fin, "TotalPupils"), Get(row.cols, "pupil_count"))),
     total_expenditure |->
         safe_float(Or(Get(fin, "TotalExpenditure"), Get(fin, "total_expenditure"))),
     total_teaching_support_costs |->
         safe_float(Or(Get(fin, "TotalTeachingSupportStaffCosts"),
                       Get(fin, "total_teaching_support_costs")))]

\* Field-level fallback on its own: a row with a value (or none) under the
\* first candidate column and under a later one.
LaterValues == {None, Str(<<"1">>)}
Candidates == [first : {None} \cup {Str(s) : s \in Strings}, later : LaterValues]

RowOfTwo(c, first_key, later_key) ==
    [k \in (IF IsNone(c.first) THEN {} ELSE {first_key})
            \cup (IF IsNone(c.later) THEN {} ELSE {later_key}) |->
        IF k = first_key THEN c.first.v ELSE c.later.v]

InitFallback ==
    /\ mode = "fallback"
    /\ nIn \in Candidates
    /\ nOut = NoCall
    /\ PrioIdle /\ FilesIdle /\ LoaderIdle /\ StepIdle /\ OfstedIdle /\ AppIdle

\* self._get_value(row, 'school_name', 'SchoolName', 'school_name_gias')
GetValueOfCandidates ==
    /\ mode = "fallback"
    /\ nOut' = Call("_get_value", nIn,
                    get_value(RowOfTwo(nIn, "school_name", "SchoolName"), NameKeys))
    /\ NormFrame

\* self._safe_float(fin.get('TotalExpenditure') or fin.get('total_expenditure'))
TwoNameLookup ==
    /\ mode = "fallback"
    /\ nOut' = Call("total_expenditure", nIn,
                    FinancialOf(RowOfTwo(nIn, "TotalExpenditure", "total_expenditure"),
                                [cols |-> <<>>]).total_expenditure)
    /\ NormFrame

NextFallback ==
    \/ GetValueOfCandidates
    \/ TwoNameLookup

SpecFallback == InitFallback /\ [][NextFallback]_vars

\* School(...) from the converted fields, or the exception a conversion
\* raised on the way.
SchoolOf(urn, school_name, pupil_count, financial, send) ==
    IF IsRaise(pupil_count) THEN pupil_count
    ELSE IF send # None /\ SendRaises(send) THEN Raise("OverflowError")
    ELSE [tag |-> "School", urn |-> urn, school_name |-> school_name,
          pupil_count |-> pupil_count, financial |-> financial, send |-> send]

\* _merged_row_to_school: the School, or the exception that leaves it.
merged_row_to_school(row, urn) ==
    SchoolOf(urn,
             NameOr(get_value(row.cols, NameKeys), urn),
             safe_int(Or(Get(row.cols, "pupil_count"), Get(row.cols, "TotalPupils"))),
             FinancialOf(FinancialRow(row), row),
             IF Truthy(row.send) THEN SendOf(row.send) ELSE None)

\* The orders in which `for urn in all_urns` may visit a set.
Orders(S) ==
    {o \in [1..Cardinality(S) -> S] : \A i, j \in DOMAIN o : o[i] = o[j] => i = j}

\* The loop of _load_and_merge_csvs over the identifiers in the order given:
\* a School whose construction raises is left out.
\* try: schools.append(school) / except Exception: continue
Appended(school) == IF IsRaise(school) THEN <<>> ELSE <<school>>

RECURSIVE MergeLoop(_, _, _, _)
MergeLoop(order, gias_data, financial_data, send_data) ==
    IF order = <<>> THEN <<>>
    ELSE Appended(merged_row_to_school(
                      MergedRow(GetRow(gias_data, Head(order)),
                                GetRow(financial_data, Head(order)),
                                GetRow(send_data, Head(order))),
                      Head(order)))
         \o MergeLoop(Tail(order), gias_data, financial_data, send_data)

AllUrns(gias_data, financial_data) == DOMAIN gias_data \cup DOMAIN financial_data

\* _load_and_merge_csvs: the lists it may return (one per iteration order of
\* the identifier set), or the exception of a file loader.
MergeAll(gias_data, financial_data, send_data) ==
    IF IsRaise(gias_data) THEN {gias_data}
    ELSE IF IsRaise(financial_data) THEN {financial_data}
    ELSE IF IsRaise(send_data) THEN {send_data}
    ELSE {[tag |-> "list",
           v |-> MergeLoop(o, gias_data.v, financial_data.v, send_data.v)] :
             o \in Orders(AllUrns(gias_data.v, financial_data.v))}

load_and_merge_csvs(g, f, s) ==
    MergeAll(load_gias_csv(g), load_financial_csv(f), load_send_csv(s))

\* {key(s): s for s in schools}: a later School replaces an earlier one.
RECURSIVE IndexBy(_, _, _)
IndexBy(schools, field, d) ==
    IF schools = <<>> THEN d
    ELSE IndexBy(Tail(schools), field, Put(d, Head(schools)[field], Head(schools)))

schools_by_name(schools) == IndexBy(schools, "school_name", EmptyDict)
schools_by_urn(schools) == IndexBy(schools, "urn", EmptyDict)

\* dict.get(key) on an index
Lookup(d, key) == IF key \in DOMAIN d THEN d[key] ELSE None

(***************************************************************************)
(* The loader and its cache                                                *)
(***************************************************************************)
\* DataLoader.load called with the cache and the indexes given: the states it
\* may leave behind, each with what it returned or raised.
load(c, bn, bu) ==
    IF c # None
    THEN {[cache |-> c, by_name |-> bn, by_urn |-> bu, ret |-> c]}
    ELSE {IF IsRaise(schools)
          THEN [cache |-> c, by_name |-> bn, by_urn |-> bu, ret |-> schools]
          ELSE [cache |-> schools, by_name |-> schools_by_name(schools.v),
                by_urn |-> schools_by_urn(schools.v), ret |-> schools] :
            schools \in load_and_merge_csvs(gias_csv, fin_csv, send_csv)}

\* DataLoader.refresh: the cache and both indexes are cleared, then load().
refresh == load(None, EmptyDict, EmptyDict)

\* self._schools_by_urn.get(clean_urn)
LookupClean(d, clean_urn_) ==
    IF IsRaise(clean_urn_) THEN clean_urn_
    ELSE IF IsNone(clean_urn_) THEN None
    ELSE Lookup(d, clean_urn_.v)

\* DataLoader.get_school_by_urn after its load() left `o`.
get_school_by_urn(o, urn) ==
    IF IsRaise(o.ret) THEN o.ret ELSE LookupClean(o.by_urn, clean_urn(urn))

\* School.get_sales_priority
get_sales_priority(school) ==
    IF school.financial # None THEN get_priority_level(school.financial) ELSE "UNKNOWN"

\* DataLoader.get_school_by_name after its load() left `o`.
get_school_by_name(o, name) ==
    IF IsRaise(o.ret) THEN o.ret ELSE Lookup(o.by_name, name.v)

MaxRows == 2
MaxSendRows == 1
MaxEdits == 1

GiasRows ==
    { [k \in {"urn", "school_name", "pupil_count", "TotalTeachingSupportStaffCosts"} |->
          CASE k = "urn" -> <<"1">>
            [] k = "school_name" -> <<"A">>
            [] k = "pupil_count" -> <<"1", "0">>
            [] OTHER -> <<"2", "0", "0">>],
      [k \in {"urn", "school_name"} |->
          CASE k = "urn" -> <<"2">>
            [] OTHER -> <<"A">>],
      [k \in {"urn", "school_name", "pupil_count"} |->
          CASE k = "urn" -> <<"1", ".", "0">>
            [] k = "school_name" -> <<"B">>
            [] OTHER -> <<"i", "n", "f">>],
      [k \in {"urn", "school_name"} |->
          CASE k = "urn" -> <<>>
            [] OTHER -> <<"C">>],
      [k \in {"URN", "school_name"} |->
          CASE k = "URN" -> <<"i", "n", "f">>
            [] OTHER -> <<"D">>] }

FinancialRows ==
    { [k \in {"URN", "school_name", "TotalTeachingSupportStaffCosts", "TotalPupils"} |->
          CASE k = "URN" -> <<"1">>
            [] k = "school_name" -> <<"F">>
            [] k = "TotalPupils" -> <<"2", "0">>
            [] OTHER -> <<"1", "0", "0">>],
      [k \in {"URN", "status", "TotalTeachingSupportStaffCosts"} |->
          CASE k = "URN" -> <<"1">>
            [] k = "status" -> <<"s", "u", "c", "c", "e", "s", "s">>
            [] OTHER -> <<"5", "5", "0", "0", "0", "0">>],
      [k \in {"URN", "status", "TotalTeachingSupportStaffCosts"} |->
          CASE k = "URN" -> <<"2">>
            [] k = "status" -> <<"f", "a", "i", "l", "e", "d">>
            [] OTHER -> <<"4", "9", "9", "9", "9", "9">>],
      [k \in {"urn", "status", "total_teaching_support_costs"} |->
          CASE k = "urn" -> <<"3">>
            [] k = "status" -> <<>>
            [] OTHER -> <<"2", "0", "0", "0", "0", "0">>],
      [k \in {"URN", "TotalTeachingSupportStaffCosts"} |->
          CASE k = "URN" -> <<" ">>
            [] OTHER -> <<"1">>] }

SendRows ==
    { [k \in {"URN", "EHC plan", "SEN support", "SEN_Unit"} |->
          CASE k = "URN" -> <<"1">>
            [] k = "EHC plan" -> <<"1", "0">>
            [] k = "SEN support" -> <<"x">>
            [] OTHER -> <<"1">>],
      [k \in {"URN", "EHC plan"} |->
          CASE k = "URN" -> <<"4">>
            [] OTHER -> <<"5">>],
      [k \in {"URN", "EHC plan"} |->
          CASE k = "URN" -> <<"2">>
            [] OTHER -> <<"i", "n", "f">>] }

Files(rows, n) == UNION {[1..i -> rows] : i \in 0..n}

QueryUrns == {Str(<<"1">>), Str(<<"2", ".", "0">>), Str(<<"4">>)}
QueryNames == {Str(<<"A">>), Str(<<"F">>)}

Init ==
    /\ mode = "loader"
    /\ gias_csv \in Files(GiasRows, MaxRows)
    /\ fin_csv \in Files(FinancialRows, MaxRows)
    /\ send_csv \in Files(SendRows, MaxSendRows)
    /\ edits = 0
    /\ LoaderIdle
    /\ NormIdle /\ PrioIdle /\ StepIdle /\ OfstedIdle /\ AppIdle

LoaderFrame == UNCHANGED <<mode, normVars, prioVars, stepVars, ofstedVars, appVars>>

Load ==
    /\ mode = "loader"
    /\ \E o \in load(cache, by_name, by_urn) :
          /\ cache' = o.cache
          /\ by_name' = o.by_name
          /\ by_urn' = o.by_urn
          /\ ret' = Call("load", None, o.ret)
    /\ UNCHANGED <<fileVars, edits>>
    /\ LoaderFrame

Refresh ==
    /\ mode = "loader"
    /\ \E o \in refresh :
          /\ cache' = o.cache
          /\ by_name' = o.by_name
          /\ by_urn' = o.by_urn
          /\ ret' = Call("refresh", None, o.ret)
    /\ UNCHANGED <<fileVars, edits>>
    /\ LoaderFrame

GetSchoolByUrn ==
    /\ mode = "loader"
    /\ \E urn \in QueryUrns, o \in load(cache, by_name, by_urn) :
          /\ cache' = o.cache
          /\ by_name' = o.by_name
          /\ by_urn' = o.by_urn
          /\ ret' = Call("get_school_by_urn", urn, get_school_by_urn(o, urn))
    /\ UNCHANGED <<fileVars, edits>>
    /\ LoaderFrame

GetSchoolByName ==
    /\ mode = "loader"
    /\ \E name \in QueryNames, o \in load(cache, by_name, by_urn) :
          /\ cache' = o.cache
          /\ by_name' = o.by_name
          /\ by_urn' = o.by_urn
          /\ ret' = Call("get_school_by_name", name, get_school_by_name(o, name))
    /\ UNCHANGED <<fileVars, edits>>
    /\ LoaderFrame

\* A row is appended to one of the files, or its last row removed.
FileEdit ==
    \/ \E row \in GiasRows :
          /\ Len(gias_csv) < MaxRows
          /\ gias_csv' = Append(gias_csv, row)
          /\ UNCHANGED <<fin_csv, send_csv>>
    \/ /\ gias_csv # <<>>
       /\ gias_csv' = SubSeq(gias_csv, 1, Len(gias_csv) - 1)
       /\ UNCHANGED <<fin_csv, send_csv>>
    \/ \E row \in FinancialRows :
          /\ Len(fin_csv) < MaxRows
          /\ fin_csv' = Append(fin_csv, row)
          /\ UNCHANGED <<gias_csv, send_csv>>
    \/ /\ fin_csv # <<>>
       /\ fin_csv' = SubSeq(fin_csv, 1, Len(fin_csv) - 1)
       /\ UNCHANGED <<gias_csv, send_csv>>
    \/ \E row \in SendRows :
          /\ Len(send_csv) < MaxSendRows
          /\ send_csv' = Append(send_csv, row)
          /\ UNCHANGED <<gias_csv, fin_csv>>
    \/ /\ send_csv # <<>>
       /\ send_csv' = SubSeq(send_csv, 1, Len(send_csv) - 1)
       /\ UNCHANGED <<gias_csv, fin_csv>>

\* The files change on disk between two calls.
EditFiles ==
    /\ mode = "loader"
    /\ edits < MaxEdits
    /\ edits' = edits + 1
    /\ ret' = NoCall
    /\ FileEdit
    /\ UNCHANGED loaderVars
    /\ LoaderFrame

Next ==
    \/ Load
    \/ Refresh
    \/ GetSchoolByUrn
    \/ GetSchoolByName
    \/ EditFiles

Spec == Init /\ [][Next]_vars

\* Financial files whose rows differ in their status marker: the loader
\* started on one of them, the directory file holding at most one row.
FailedWord == <<"f", "a", "i", "l", "e", "d">>
StatusRow(urn, status, cost) ==
    [k \in {"URN", "status", "TotalTeachingSupportStaffCosts"} |->
        CASE k = "URN" -> urn
          [] k = "status" -> status
          [] OTHER -> cost]
StatusRows ==
    { StatusRow(<<"1">>, SuccessWord, <<"5", "5", "0", "0", "0", "0">>),
      StatusRow(<<"1">>, FailedWord, <<"4", "9", "9", "9", "9", "9">>),
      StatusRow(<<"1">>, <<>>, <<"2", "0", "0", "0", "0", "0">>),
      StatusRow(<<"2">>, FailedWord, <<"1", "0", "0">>),
      [k \in {"URN", "TotalTeachingSupportStaffCosts"} |->
          CASE k = "URN" -> <<"2">>
            [] OTHER -> <<"1">>] }

InitStatus ==
    /\ mode = "loader"
    /\ gias_csv \in Files(GiasRows, 1)
    /\ fin_csv \in Files(StatusRows, MaxRows)
    /\ send_csv = <<>>
    /\ edits = 0
    /\ LoaderIdle
    /\ NormIdle /\ PrioIdle /\ StepIdle /\ OfstedIdle /\ AppIdle

SpecStatus == InitStatus /\ [][Next]_vars

(***************************************************************************)
(* load() and refresh() statement by statement on the shared loader        *)
(***************************************************************************)
MaxConcRows == 1

\* What a request reads of the loader returned by get_data_loader().
Snapshot == [cache |-> cache, by_name |-> by_name, by_urn |-> by_urn]

\* The cache and the two indexes of a complete load of `schools`.
DatasetOf(schools) ==
    [cache |-> schools, by_name |-> schools_by_name(schools.v),
     by_urn |-> schools_by_urn(schools.v)]

\* The call in progress: refresh() remembers the dataset it started from.
Caller == IF old = None THEN "load" ELSE "refresh"

InitConc ==
    /\ mode = "conc"
    /\ gias_csv \in Files(GiasRows, MaxConcRows)
    /\ fin_csv \in Files(FinancialRows, MaxConcRows)
    /\ send_csv \in Files(SendRows, MaxSendRows)
    /\ edits = 0
    /\ LoaderIdle
    /\ NormIdle /\ PrioIdle /\ StepIdle /\ OfstedIdle /\ AppIdle

ConcFrame == UNCHANGED <<mode, normVars, prioVars, ofstedVars, appVars>>

\* A request calls load().
CallLoad ==
    /\ mode = "conc" /\ pc = "idle"
    /\ pc' = "l32"
    /\ built' = None /\ seen' = None /\ old' = None
    /\ ret' = NoCall
    /\ UNCHANGED <<fileVars, edits, loaderVars>>
    /\ ConcFrame

\* A request calls refresh().
CallRefresh ==
    /\ mode = "conc" /\ pc = "idle"
    /\ pc' = "r427"
    /\ built' = None /\ seen' = None /\ old' = Snapshot
    /\ ret' = NoCall
    /\ UNCHANGED <<fileVars, edits, loaderVars>>
    /\ ConcFrame

\* self._schools_cache = None
RefreshClearCache ==
    /\ mode = "conc" /\ pc = "r427"
    /\ cache' = None
    /\ pc' = "r428"
    /\ UNCHANGED <<fileVars, edits, by_name, by_urn, ret, built, seen, old>>
    /\ ConcFrame

\* self._schools_by_name = {}
RefreshClearByName ==
    /\ mode = "conc" /\ pc = "r428"
    /\ by_name' = EmptyDict
    /\ pc' = "r429"
    /\ UNCHANGED <<fileVars, edits, cache, by_urn, ret, built, seen, old>>
    /\ ConcFrame

\* self._schools_by_urn = {}, and on to `return self.load()`
RefreshClearByUrn ==
    /\ mode = "conc" /\ pc = "r429"
    /\ by_urn' = EmptyDict
    /\ pc' = "l32"
    /\ UNCHANGED <<fileVars, edits, cache, by_name, ret, built, seen, old>>
    /\ ConcFrame

\* if self._schools_cache is not None: return self._schools_cache
LoadCheckCache ==
    /\ mode = "conc" /\ pc = "l32"
    /\ IF cache # None
       THEN pc' = "idle" /\ ret' = Call(Caller, None, cache)
       ELSE pc' = "l36" /\ ret' = ret
    /\ UNCHANGED <<fileVars, edits, loaderVars, built, seen, old>>
    /\ ConcFrame

\* schools = self._load_and_merge_csvs(): an exception leaves load()
LoadBuild ==
    /\ mode = "conc" /\ pc = "l36"
    /\ \E schools \in load_and_merge_csvs(gias_csv, fin_csv, send_csv) :
          /\ built' = schools
          /\ IF IsRaise(schools)
             THEN pc' = "idle" /\ ret' = Call(Caller, None, schools)
             ELSE pc' = "l42" /\ ret' = ret
    /\ UNCHANGED <<fileVars, edits, loaderVars, seen, old>>
    /\ ConcFrame

\* self._schools_cache = schools
LoadSetCache ==
    /\ mode = "conc" /\ pc = "l42"
    /\ cache' = built
    /\ pc' = "l43"
    /\ UNCHANGED <<fileVars, edits, by_name, by_urn, ret, built, seen, old>>
    /\ ConcFrame

\* self._schools_by_name = {s.school_name: s for s in schools}
LoadSetByName ==
    /\ mode = "conc" /\ pc = "l43"
    /\ by_name' = schools_by_name(built.v)
    /\ pc' = "l44"
    /\ UNCHANGED <<fileVars, edits, cache, by_urn, ret, built, seen, old>>
    /\ ConcFrame

\* self._schools_by_urn = {s.urn: s for s in schools}; return schools
LoadSetByUrn ==
    /\ mode = "conc" /\ pc = "l44"
    /\ by_urn' = schools_by_urn(built.v)
    /\ pc' = "idle"
    /\ ret' = Call(Caller, None, built)
    /\ UNCHANGED <<fileVars, edits, cache, by_name, built, seen, old>>
    /\ ConcFrame

\* Another request reads the shared loader while the call is in progress.
Observe ==
    /\ mode = "conc" /\ pc # "idle"
    /\ seen' = Snapshot
    /\ UNCHANGED <<fileVars, edits, loaderVars, ret, pc, built, old>>
    /\ ConcFrame

\* The files change on disk between two calls.
EditFilesConc ==
    /\ mode = "conc" /\ pc = "idle"
    /\ edits < MaxEdits
    /\ edits' = edits + 1
    /\ FileEdit
    /\ UNCHANGED <<loaderVars, ret, stepVars>>
    /\ ConcFrame

NextConc ==
    \/ CallLoad
    \/ CallRefresh
    \/ RefreshClearCache
    \/ RefreshClearByName
    \/ RefreshClearByUrn
    \/ LoadCheckCache
    \/ LoadBuild
    \/ LoadSetCache
    \/ LoadSetByName
    \/ LoadSetByUrn
    \/ Observe
    \/ EditFilesConc

SpecConc == InitConc /\ [][NextConc]_vars

(***************************************************************************)
(* The Ofsted analysis pipeline                                            *)
(*                                                                         *)
(* The network, the PDF parser and the language model are outside the      *)
(* program: `env` holds the outcome of each of them for one analysis.  A   *)
(* report text is represented by what the patterns of _extract_rating and  *)
(* _extract_inspection_date find in it.                                    *)
(***************************************************************************)
NumQueries == 3

\* One search query: requests raised, no Ofsted link among the results, a
\* link that is an Ofsted PDF, a link to an Ofsted page.
SearchOutcomes == {"error", "none", "pdf", "page"}
\* A page fetched by _extract_pdf_from_page.
PageOutcomes == {"error", "none", "pdf"}
\* The search page of reports.ofsted.gov.uk.
DirectOutcomes == {"error", "none", "pdf", "provider"}
\* The download and the PDF parse.
DownloadOutcomes == {"error", "empty", "text"}
Docs == {[rating |-> None, inspection_date |-> None],
         [rating |-> Str("Good"), inspection_date |-> Str("1 May 2024")]}
\* The model call: the chain raised, the parsed JSON is not an object, or it
\* is an object with these entries.
LlmOutcomes ==
    {[tag |-> "raise"], [tag |-> "list"]}
    \cup {[tag |-> "dict", main_improvements |-> m, maths_urgency |-> u,
           priority_order |-> p] :
            m \in {<<>>, <<"Mathematics">>}, u \in {"HIGH", "LOW"}, p \in {0, 2}}

Envs ==
    [serper_key : BOOLEAN, queries : [1..NumQueries -> SearchOutcomes],
     page : PageOutcomes, direct : DirectOutcomes, download : DownloadOutcomes,
     doc : Docs, llm : LlmOutcomes]

NoReportMsg == "Could not find Ofsted report"
NoTextMsg == "Could not extract PDF content"
NotObjectMsg == "'list' object has no attribute 'get'"

\* Python truth of an Optional[str]
NonEmpty(x) == ~IsNone(x) /\ x.v # ""

\* The Report Locator in detail.  A response to a search is an exception of
\* the request (a timeout included), a status other than 200, or a ranked
\* list of links.  A link is an Ofsted PDF ("pdf"), an Ofsted page together
\* with what fetching it gives ("page-pdf": a PDF link on it, "page-none":
\* none, "page-error": the fetch failed), or any other link.
MaxResults == 2

PageKinds == {"page-pdf", "page-none", "page-error"}
LinkKinds == {"pdf", "other", "page-pdf", "page-error"}
LinkLists ==
    {l \in UNION {[1..n -> LinkKinds] : n \in 0..MaxResults} :
        \A k \in DOMAIN l : k > 1 => l[k] \in {"pdf", "page-pdf"}}

Failed(status) == [status |-> status, links |-> <<>>]
Ok(links) == [status |-> "ok", links |-> links]
Responses == {Failed("error"), Failed("non200")} \cup {Ok(l) : l \in LinkLists}

LocatorEnvs ==
    [serper_key : BOOLEAN, queries : [1..NumQueries -> Responses], direct : Responses]

\* The URL of the PDF that the k-th link of a list leads to; the list is that
\* of search query i, or of the site search (query 0).
FileUrl(via, i, k) ==
    [tag |-> "str", v |-> "https://files.ofsted.gov.uk/v1/file", via |-> via,
     query |-> i, rank |-> k]

\* The requests of one lookup, in the order issued.
SearchReq(i) == [req |-> "serper", query |-> i, rank |-> 0]
PageReq(i, k) == [req |-> "page", query |-> i, rank |-> k]
DirectReq == [req |-> "site search", query |-> 0, rank |-> 0]

Outcome(url, log) == [url |-> url, log |-> log]
Then(log, r) == Outcome(r.url, log \o r.log)

\* The later result is taken even when the earlier one is a URL.
OrElse_last(r, next) == IF NonEmpty(next.url) THEN Then(r.log, next) ELSE r

\* if pdf_url: return pdf_url    (else go on with what follows)
OrElse(r, next) == IF NonEmpty(r.url) THEN r ELSE Then(r.log, next)

\* _extract_pdf_from_page: one GET; None unless a PDF link is on the page
\* (an exception and a status other than 200 included).
extract_pdf_from_page(kind, i, k) ==
    Outcome(IF kind = "page-pdf" THEN FileUrl("page", i, k) ELSE None,
           <<PageReq(i, k)>>)

\* for result in organic_results / for link in soup.find_all('a', href=True):
\* a PDF link is returned, an Ofsted page is fetched for a PDF link.
RECURSIVE LinksFrom(_, _, _, _)
LinksFrom(links, via, i, k) ==
    IF k > Len(links) THEN Outcome(None, <<>>)
    ELSE IF links[k] = "pdf" THEN Outcome(FileUrl(via, i, k), <<>>)
    ELSE IF links[k] \in PageKinds
         THEN OrElse(extract_pdf_from_page(links[k], i, k),
                     LinksFrom(links, via, i, k + 1))
    ELSE LinksFrom(links, via, i, k + 1)

\* if response.status_code == 200: ...; an exception or another status gives
\* nothing.
LinksOf(response, via, i) ==
    IF response.status = "ok" THEN LinksFrom(response.links, via, i, 1)
    ELSE Outcome(None, <<>>)

\* _try_direct_ofsted_url
try_direct_ofsted_url(e) == Then(<<DirectReq>>, LinksOf(e.direct, "site search", 0))

\* The loop of _find_ofsted_report_url over the search queries from the i-th
\* on, and the fallback after the last.
RECURSIVE SearchFrom(_, _)

\* A failed query is issued once more before the next one.
Query_retry(e, i) ==
    Then(<<SearchReq(i)>>,
         IF e.queries[i].status = "ok" THEN LinksOf(e.queries[i], "serper", i)
         ELSE Then(<<SearchReq(i)>>, LinksOf(e.queries[i], "serper", i)))

\* One pass of `for query in search_queries`: one POST and its results.
Query(e, i) == Then(<<SearchReq(i)>>, LinksOf(e.queries[i], "serper", i))

SearchFrom(e, i) ==
    IF i > NumQueries THEN try_direct_ofsted_url(e)
    ELSE OrElse(Query(e, i), SearchFrom(e, i + 1))

\* _find_ofsted_report_url: the URL returned and the requests issued.
find_ofsted_report_url(e) ==
    IF ~e.serper_key THEN try_direct_ofsted_url(e) ELSE SearchFrom(e, 1)

\* The responses behind the outcomes of one analysis.
LinkOf(outcome, page) ==
    CASE outcome = "pdf" -> <<"pdf">>
      [] outcome \in {"page", "provider"} ->
            <<CASE page = "pdf" -> "page-pdf"
                [] page = "none" -> "page-none"
                [] OTHER -> "page-error">>
      [] OTHER -> <<>>
ResponseOf(outcome, page) ==
    IF outcome = "error" THEN Failed("error") ELSE Ok(LinkOf(outcome, page))
LocatorEnv(e) ==
    [serper_key |-> e.serper_key,
     queries |-> [i \in 1..NumQueries |-> ResponseOf(e.queries[i], e.page)],
     direct |-> ResponseOf(e.direct, e.page)]

\* _download_and_extract_pdf: the text, or None after an exception.
download_and_extract_pdf(e) ==
    CASE e.download = "error" -> None
      [] e.download = "empty" -> Str("")
      [] OTHER -> [tag |-> "str", v |-> "report", doc |-> e.doc]

\* _extract_rating and _extract_inspection_date
extract_rating(pdf_text) == pdf_text.doc.rating
extract_inspection_date(pdf_text) == pdf_text.doc.inspection_date

EmptyAnalysis ==
    [tag |-> "dict", main_improvements |-> <<>>, maths_urgency |-> "LOW",
     priority_order |-> 0]

\* An exception of the chain gives an analysis with one improvement.
analyze_with_llm_default(e) ==
    IF e.llm.tag = "raise"
    THEN [EmptyAnalysis EXCEPT !.main_improvements = <<"Key areas">>]
    ELSE e.llm

\* _analyze_with_llm: an exception of the chain (a failed call, a reply that
\* the JSON parser rejects) gives the empty analysis.
analyze_with_llm(e) == IF e.llm.tag = "raise" THEN EmptyAnalysis ELSE e.llm

\* ConversationStarter(topic, source, relevance_score) with the score in
\* hundredths.
Starter(topic, source, score) ==
    [topic |-> topic, source |-> source, relevance_score |-> score]

\* analysis.get(key, default); the entries of the reply are named
\* main_improvements (the areas), maths_urgency and english_urgency
\* (subject_improvements.<subject>.urgency), send and leadership
\* (other_key_improvements.<key>) and priority_order (its length).
Field(analysis, key, default) ==
    IF key \in DOMAIN analysis THEN analysis[key] ELSE default

\* if <condition>: starters.append(ConversationStarter(...))
StarterIf(fires, topic, report_url, score) ==
    IF fires THEN <<Starter(topic, report_url, score)>> ELSE <<>>

MainTopic(main_improvements) ==
    IF main_improvements = <<>> THEN <<>> ELSE <<Head(main_improvements), "Support">>

\* The starters sorted by relevance: SEND before English.
generate_conversation_starters_sorted(analysis, report_url) ==
    StarterIf(Field(analysis, "main_improvements", <<>>) # <<>>,
              MainTopic(Field(analysis, "main_improvements", <<>>)), report_url, 100)
    \o StarterIf(Field(analysis, "maths_urgency", "") = "HIGH",
                 <<"Mathematics Improvement">>, report_url, 95)
    \o StarterIf(Field(analysis, "send", <<>>) # <<>>,
                 <<"SEND Provision Support">>, report_url, 93)
    \o StarterIf(Field(analysis, "english_urgency", "") \in {"HIGH", "MEDIUM"},
                 <<"English & Literacy Support">>, report_url, 92)
    \o StarterIf(Field(analysis, "leadership", <<>>) # <<>>,
                 <<"Leadership Development">>, report_url, 88)
    \o StarterIf(Field(analysis, "priority_order", 0) >= 2,
                 <<"Ofsted Action Plan Support">>, report_url, 90)

\* _generate_conversation_starters
generate_conversation_starters(analysis, report_url) ==
    StarterIf(Field(analysis, "main_improvements", <<>>) # <<>>,
              MainTopic(Field(analysis, "main_improvements", <<>>)), report_url, 100)
    \o StarterIf(Field(analysis, "maths_urgency", "") = "HIGH",
                 <<"Mathematics Improvement">>, report_url, 95)
    \o StarterIf(Field(analysis, "english_urgency", "") \in {"HIGH", "MEDIUM"},
                 <<"English & Literacy Support">>, report_url, 92)
    \o StarterIf(Field(analysis, "send", <<>>) # <<>>,
                 <<"SEND Provision Support">>, report_url, 93)
    \o StarterIf(Field(analysis, "leadership", <<>>) # <<>>,
                 <<"Leadership Development">>, report_url, 88)
    \o StarterIf(Field(analysis, "priority_order", 0) >= 2,
                 <<"Ofsted Action Plan Support">>, report_url, 90)

\* The result dict of analyze before its try block.
InitialResult ==
    [rating |-> None, inspection_date |-> None, report_url |-> None,
     improvements |-> <<>>, conversation_starters |-> <<>>,
     pdf_extracted |-> FALSE, error |-> None]

Returned(r) == [tag |-> "return", v |-> r]
Raised(r, msg) == [tag |-> "raise", msg |-> msg, result |-> r]

\* Steps 5 and 6 of analyze: analysis.get(...) raises AttributeError on a
\* reply that is not an object.
Structured(r, analysis) ==
    IF analysis.tag # "dict" THEN Raised(r, NotObjectMsg)
    ELSE Returned(
           Put(Put(Put(Put(r, "improvements", analysis.main_improvements),
                       "subject_improvements", analysis.maths_urgency),
                   "priority_order", analysis.priority_order),
               "conversation_starters",
               generate_conversation_starters(analysis, r.report_url)))

\* pdf_extracted is set before the text is looked at.
Extracted_flag_first(e, r, pdf_text) ==
    IF ~NonEmpty(pdf_text)
    THEN Returned(Put(Put(r, "pdf_extracted", TRUE), "error", Str(NoTextMsg)))
    ELSE Structured(Put(Put(Put(r, "pdf_extracted", TRUE),
                            "rating", extract_rating(pdf_text)),
                        "inspection_date", extract_inspection_date(pdf_text)),
                    analyze_with_llm(e))

\* Steps 2 to 4 of analyze.
Extracted(e, r, pdf_text) ==
    IF ~NonEmpty(pdf_text) THEN Returned(Put(r, "error", Str(NoTextMsg)))
    ELSE Structured(Put(Put(Put(r, "pdf_extracted", TRUE),
                            "rating", extract_rating(pdf_text)),
                        "inspection_date", extract_inspection_date(pdf_text)),
                    analyze_with_llm(e))

\* Step 1 of analyze with no error recorded when no report is found.
Located_silent(e, r, report_url) ==
    IF ~NonEmpty(report_url) THEN Returned(r)
    ELSE Extracted(e, Put(r, "report_url", report_url), download_and_extract_pdf(e))

\* Step 1 of analyze.
Located(e, r, report_url) ==
    IF ~NonEmpty(report_url) THEN Returned(Put(r, "error", Str(NoReportMsg)))
    ELSE Extracted(e, Put(r, "report_url", report_url), download_and_extract_pdf(e))

\* except Exception as e: result["error"] = str(e); return result
Except(o) ==
    IF o.tag = "raise" THEN Returned(Put(o.result, "error", Str(o.msg))) ELSE o

\* OfstedChain.analyze
analyze(e) ==
    Except(Located(e, InitialResult, find_ofsted_report_url(LocatorEnv(e)).url))

InitOfsted ==
    /\ mode = "ofsted"
    /\ env \in Envs
    /\ result = None
    /\ NormIdle /\ PrioIdle /\ FilesIdle /\ LoaderIdle /\ StepIdle /\ AppIdle

Analyze ==
    /\ mode = "ofsted"
    /\ result' = analyze(env)
    /\ UNCHANGED <<mode, normVars, prioVars, fileVars, edits, loaderVars, ret,
                   stepVars, env, appVars>>

NextOfsted == Analyze

SpecOfsted == InitOfsted /\ [][NextOfsted]_vars

\* One lookup of the Report Locator alone.
InitLocator ==
    /\ mode = "locator"
    /\ env \in LocatorEnvs
    /\ result = None
    /\ NormIdle /\ PrioIdle /\ FilesIdle /\ LoaderIdle /\ StepIdle /\ AppIdle

FindReport ==
    /\ mode = "locator"
    /\ result' = find_ofsted_report_url(env)
    /\ UNCHANGED <<mode, normVars, prioVars, fileVars, edits, loaderVars, ret,
                   stepVars, env, appVars>>

NextLocator == FindReport

SpecLocator == InitLocator /\ [][NextLocator]_vars

(***************************************************************************)
(* The dashboard session: shortlist, view, export and regeneration         *)
(*                                                                         *)
(* `store` holds the School objects the deep-dive view reads by identifier.*)
(* The intelligence service that regenerates starters is not part of the   *)
(* sources modelled here; its two calls follow the written contract: a     *)
(* forced regeneration replaces the starters of its own channel only.      *)
(***************************************************************************)
MAX_SHORTLIST == 15

HttpPrefix == <<"h", "t", "t", "p">>
ReportSource == Str(HttpPrefix \o <<"s", ":", "/", "/", "o">>)
DataSource == Str(<<"F", "i", "n">>)

\* ConversationStarter(topic, source)
AppStarter(topic, source) == [topic |-> topic, source |-> source]

\* s.source and s.source.startswith("http")
IsOfstedStarter(s) ==
    ~IsNone(s.source) /\ s.source.v # <<>> /\ StartsWith(s.source.v, HttpPrefix)
IsFinancialStarter(s) == ~IsOfstedStarter(s)

\* The Schools of the session before any starter is generated.
AppSchool(urn, name, cost) ==
    [urn |-> urn, school_name |-> name,
     financial |-> [total_teaching_support_costs |-> cost, total_expenditure |-> None],
     conversation_starters |-> <<>>]

InitialStore ==
    [u \in {"1", "2"} |->
        IF u = "1" THEN AppSchool("1", "A", Flt("fin", 550000, <<>>))
        ELSE AppSchool("2", "B", None)]

\* What the model call of each channel may hand back.
GeneratedFinancial ==
    {<<AppStarter("Budget", None)>>,
     <<AppStarter("Budget", None), AppStarter("Agency", DataSource)>>}
GeneratedOfsted == {<<>>, <<AppStarter("Mathematics Improvement", ReportSource)>>}

\* A forced regeneration that discards every starter of the school.
get_school_intelligence_replace_all(school, new) ==
    [school EXCEPT !.conversation_starters = new]

\* service.get_school_intelligence(name, force_refresh=True, ...): the
\* financial starters are replaced, the Ofsted ones kept.
get_school_intelligence(school, new) ==
    [school EXCEPT !.conversation_starters = new \o SelectSeq(@, IsOfstedStarter)]

\* service.get_school_intelligence_with_ofsted(name, force_refresh=True, ...):
\* the Ofsted starters are replaced, the financial ones kept.
get_school_intelligence_with_ofsted(school, new) ==
    [school EXCEPT !.conversation_starters = SelectSeq(@, IsFinancialStarter) \o new]

\* urn in st.session_state.shortlist
is_in_shortlist(sl, urn) == \E i \in DOMAIN sl : sl[i].urn = urn

\* st.session_state.shortlist[urn] = {"school": school, ...}: an entry of the
\* identifier keeps its place, a new one goes last.
ShortlistPut(sl, urn, school) ==
    IF is_in_shortlist(sl, urn)
    THEN [i \in DOMAIN sl |-> IF sl[i].urn = urn THEN [urn |-> urn, school |-> school]
                                                ELSE sl[i]]
    ELSE Append(sl, [urn |-> urn, school |-> school])

\* The value add_to_shortlist returns.
add_to_shortlist_returns(sl) == ~(Len(sl) >= MAX_SHORTLIST)

\* Nothing stops a 16th entry.
add_to_shortlist_uncapped(sl, school) == ShortlistPut(sl, school.urn, school)

\* add_to_shortlist: nothing is added to a full shortlist.
add_to_shortlist(sl, school) ==
    IF Len(sl) >= MAX_SHORTLIST THEN sl ELSE ShortlistPut(sl, school.urn, school)

\* remove_from_shortlist
remove_from_shortlist(sl, urn) ==
    LET Keep(entry) == entry.urn # urn IN SelectSeq(sl, Keep)

\* One row of the 'School Summary' sheet (the columns the model carries).
SummaryRow(school) ==
    [name |-> school.school_name, urn |-> school.urn,
     financial_priority |-> get_sales_priority(school)]

\* The rows of the 'Conversation Starters' sheet for one school.
StarterRowsOf(school) ==
    [i \in DOMAIN school.conversation_starters |->
        [name |-> school.school_name, urn |-> school.urn,
         topic |-> school.conversation_starters[i].topic,
         source |-> IF IsNone(school.conversation_starters[i].source)
                       \/ school.conversation_starters[i].source.v = <<>>
                    THEN Str(<<"F", "i", "n", "a", "n", "c", "i", "a", "l">>)
                    ELSE school.conversation_starters[i].source]]

RECURSIVE StarterRows(_)
StarterRows(sl) ==
    IF sl = <<>> THEN <<>>
    ELSE StarterRowsOf(Head(sl).school) \o StarterRows(Tail(sl))

Sheet(name, rows) == [sheet_name |-> name, rows |-> rows]

\* The sheets written by pd.ExcelWriter given the two lists of rows.
Workbook(summary_data, starters_data) ==
    <<Sheet("School Summary", summary_data)>>
    \o (IF starters_data # <<>>
        THEN <<Sheet("Conversation Starters", starters_data)>>
        ELSE <<>>)

\* export_shortlist_to_excel
export_shortlist_to_excel(sl) ==
    Workbook([i \in DOMAIN sl |-> SummaryRow(sl[i].school)], StarterRows(sl))

AppCall(f, a, r) == [fn |-> f, arg |-> a, ret |-> r]

InitApp ==
    /\ mode = "app"
    /\ shortlist = <<>>
    /\ view = "list"
    /\ selected_urn = None
    /\ store = InitialStore
    /\ appCall = NoCall
    /\ query_params = None
    /\ NormIdle /\ PrioIdle /\ FilesIdle /\ LoaderIdle /\ StepIdle /\ OfstedIdle

AppFrame ==
    UNCHANGED <<mode, normVars, prioVars, fileVars, edits, loaderVars, ret, stepVars,
                ofstedVars, query_params>>

\* A school is opened from the list, the card grid or the sidebar.
OpenSchool ==
    /\ mode = "app"
    /\ \E u \in DOMAIN store :
          /\ view' = "deep_dive"
          /\ selected_urn' = Str(u)
          /\ appCall' = AppCall("open", Str(u), None)
    /\ UNCHANGED <<shortlist, store>>
    /\ AppFrame

\* The back button of the deep-dive page.
BackToList ==
    /\ mode = "app" /\ view = "deep_dive"
    /\ view' = "list"
    /\ selected_urn' = None
    /\ appCall' = AppCall("back", None, None)
    /\ UNCHANGED <<shortlist, store>>
    /\ AppFrame

\* The shortlist button of the deep-dive page.
ToggleShortlist ==
    /\ mode = "app" /\ view = "deep_dive" /\ selected_urn # None
    /\ shortlist' = IF is_in_shortlist(shortlist, selected_urn.v)
                    THEN remove_from_shortlist(shortlist, selected_urn.v)
                    ELSE add_to_shortlist(shortlist, store[selected_urn.v])
    /\ appCall' = AppCall("toggle", selected_urn, None)
    /\ UNCHANGED <<view, selected_urn, store>>
    /\ AppFrame

\* The remove button of a sidebar entry.
RemoveFromShortlist ==
    /\ mode = "app"
    /\ \E i \in DOMAIN shortlist :
          /\ shortlist' = remove_from_shortlist(shortlist, shortlist[i].urn)
          /\ appCall' = AppCall("remove", Str(shortlist[i].urn), None)
    /\ UNCHANGED <<view, selected_urn, store>>
    /\ AppFrame

\* The download button of the sidebar, drawn when the shortlist is not empty.
ExportShortlist ==
    /\ mode = "app" /\ shortlist # <<>>
    /\ appCall' = AppCall("export", None, export_shortlist_to_excel(shortlist))
    /\ UNCHANGED <<shortlist, view, selected_urn, store>>
    /\ AppFrame

\* The school replaces the stored one, and the shortlist entry if there is one.
Regenerated(updated_school) ==
    /\ store' = [store EXCEPT ![updated_school.urn] = updated_school]
    /\ shortlist' = IF is_in_shortlist(shortlist, updated_school.urn)
                    THEN ShortlistPut(shortlist, updated_school.urn, updated_school)
                    ELSE shortlist

\* 'Generate Financial Starters' on the deep-dive page.
GenerateFinancial ==
    /\ mode = "app" /\ view = "deep_dive" /\ selected_urn # None
    /\ \E new \in GeneratedFinancial :
          Regenerated(get_school_intelligence(store[selected_urn.v], new))
    /\ appCall' = AppCall("generate_financial", selected_urn, None)
    /\ UNCHANGED <<view, selected_urn>>
    /\ AppFrame

\* 'Fetch Ofsted & Generate Starters' on the deep-dive page.
GenerateOfsted ==
    /\ mode = "app" /\ view = "deep_dive" /\ selected_urn # None
    /\ \E new \in GeneratedOfsted :
          Regenerated(get_school_intelligence_with_ofsted(store[selected_urn.v], new))
    /\ appCall' = AppCall("generate_ofsted", selected_urn, None)
    /\ UNCHANGED <<view, selected_urn>>
    /\ AppFrame

NextApp ==
    \/ OpenSchool
    \/ BackToList
    \/ ToggleShortlist
    \/ RemoveFromShortlist
    \/ ExportShortlist
    \/ GenerateFinancial
    \/ GenerateOfsted

SpecApp == InitApp /\ [][NextApp]_vars

\* The shortlist functions on a session with more schools than the shortlist
\* holds: the first InitialEntries schools have been added, in order, and
\* the operations that follow are on the schools after them.
InitialEntries == 12
MaxShown == 4

UrnNames ==
    <<"1", "2", "3", "4", "5", "6", "7", "8", "9", "10", "11", "12", "13", "14",
      "15", "16", "17", "18">>

ManySchools == [i \in DOMAIN UrnNames |-> AppSchool(UrnNames[i], "A", None)]

RECURSIVE AddAll(_, _)
AddAll(sl, schools) ==
    IF schools = <<>> THEN sl
    ELSE AddAll(add_to_shortlist(sl, Head(schools)), Tail(schools))

Shown == {ManySchools[i] : i \in (InitialEntries + 1)..(InitialEntries + MaxShown)}

\* The school as a forced regeneration hands it back.
Updated(school) == get_school_intelligence(school, <<AppStarter("Budget", None)>>)

InitShortlist ==
    /\ mode = "shortlist"
    /\ shortlist = AddAll(<<>>, SubSeq(ManySchools, 1, InitialEntries))
    /\ view = "list"
    /\ selected_urn = None
    /\ store = InitialStore
    /\ appCall = NoCall
    /\ query_params = None
    /\ NormIdle /\ PrioIdle /\ FilesIdle /\ LoaderIdle /\ StepIdle /\ OfstedIdle

\* add_to_shortlist(school)
AddToShortlist ==
    /\ mode = "shortlist"
    /\ \E school \in Shown :
          /\ shortlist' = add_to_shortlist(shortlist, school)
          /\ appCall' = AppCall("add_to_shortlist", [urn |-> school.urn, before |-> shortlist],
                                add_to_shortlist_returns(shortlist))
    /\ UNCHANGED <<view, selected_urn, store>>
    /\ AppFrame

\* remove_from_shortlist(urn)
RemoveUrn ==
    /\ mode = "shortlist"
    /\ \E school \in Shown :
          /\ shortlist' = remove_from_shortlist(shortlist, school.urn)
          /\ appCall' = AppCall("remove_from_shortlist",
                                [urn |-> school.urn, before |-> shortlist], None)
    /\ UNCHANGED <<view, selected_urn, store>>
    /\ AppFrame

\* if is_in_shortlist(school.urn):
\*     st.session_state.shortlist[school.urn]["school"] = updated_school
ReplaceAfterRegeneration ==
    /\ mode = "shortlist"
    /\ \E school \in Shown :
          /\ shortlist' = IF is_in_shortlist(shortlist, school.urn)
                          THEN ShortlistPut(shortlist, school.urn, Updated(school))
                          ELSE shortlist
          /\ appCall' = AppCall("replace", [urn |-> school.urn, before |-> shortlist], None)
    /\ UNCHANGED <<view, selected_urn, store>>
    /\ AppFrame

NextShortlist ==
    \/ AddToShortlist
    \/ RemoveUrn
    \/ ReplaceAfterRegeneration

SpecShortlist == InitShortlist /\ [][NextShortlist]_vars

\* One run of main() of the dashboard script.  A user action sets session
\* state and reruns the script; the loader shared by the runs may be
\* refreshed between two of them.
Run(v, sel, params, rendered) ==
    [view |-> v, selected_urn |-> sel, query_params |-> params, rendered |-> rendered]

\* if view == "deep_dive" and selected_urn: ... else: ...
render(v, sel, params, schools) ==
    IF v = "deep_dive" /\ NonEmpty(sel)
    THEN IF sel.v \in DOMAIN schools
         THEN Run(v, sel, Str(schools[sel.v].urn), "deep_dive")
         ELSE Run("list", sel, params, "School not found")
    ELSE Run(v, sel, None, "list")

\* if "urn" in params: view = "deep_dive"; selected_urn = params["urn"]
main(v, sel, params, schools) ==
    IF params # None THEN render("deep_dive", params, params, schools)
    ELSE render(v, sel, params, schools)

\* The page URLs a session is opened with: no parameter, the identifier of
\* a loaded school, of no school, and an empty one.
UrlParams == {None, Str("1"), Str("9"), Str("")}

InitView ==
    /\ mode = "view"
    /\ shortlist = <<>>
    /\ view = "list"
    /\ selected_urn = None
    /\ store = InitialStore
    /\ appCall = NoCall
    /\ query_params \in UrlParams
    /\ NormIdle /\ PrioIdle /\ FilesIdle /\ LoaderIdle /\ StepIdle /\ OfstedIdle

ViewFrame ==
    UNCHANGED <<mode, normVars, prioVars, fileVars, edits, loaderVars, ret, stepVars,
                ofstedVars>>

\* The script runs with session state (v, sel) and URL parameter params.
Rendered(event, v, sel, params, schools) ==
    /\ view' = main(v, sel, params, schools).view
    /\ selected_urn' = main(v, sel, params, schools).selected_urn
    /\ query_params' = main(v, sel, params, schools).query_params
    /\ appCall' = AppCall(event, sel, main(v, sel, params, schools).rendered)

\* The first run of a session, or a rerun after a widget that changes no
\* view state.
Rerun ==
    /\ mode = "view"
    /\ Rendered("run", view, selected_urn, query_params, store)
    /\ UNCHANGED <<shortlist, store>>
    /\ ViewFrame

\* A school is picked in the list view (search box or card).
OpenFromList ==
    /\ mode = "view" /\ appCall.fn # "none" /\ appCall.ret = "list"
    /\ \E u \in DOMAIN store : Rendered("open", "deep_dive", Str(u), query_params, store)
    /\ UNCHANGED <<shortlist, store>>
    /\ ViewFrame

\* An entry of the sidebar's shortlist is clicked.
OpenFromSidebar ==
    /\ mode = "view" /\ appCall.fn # "none"
    /\ \E i \in DOMAIN shortlist :
          Rendered("sidebar", "deep_dive", Str(shortlist[i].urn), query_params, store)
    /\ UNCHANGED <<shortlist, store>>
    /\ ViewFrame

\* The shortlist button of the deep-dive page, then the rerun.
ToggleAndRerun ==
    /\ mode = "view" /\ appCall.fn # "none" /\ appCall.ret = "deep_dive"
    /\ shortlist' = IF is_in_shortlist(shortlist, selected_urn.v)
                    THEN remove_from_shortlist(shortlist, selected_urn.v)
                    ELSE add_to_shortlist(shortlist, store[selected_urn.v])
    /\ Rendered("toggle", view, selected_urn, query_params, store)
    /\ UNCHANGED store
    /\ ViewFrame

\* 'Back to Search' on the deep-dive page.
BackToSearch ==
    /\ mode = "view" /\ appCall.fn # "none" /\ appCall.ret = "deep_dive"
    /\ Rendered("back", "list", None, None, store)
    /\ UNCHANGED <<shortlist, store>>
    /\ ViewFrame

\* The loader is refreshed from files that have lost a school, and the
\* script runs again.
DatasetChanged ==
    /\ mode = "view" /\ appCall.fn # "none"
    /\ \E u \in DOMAIN store :
          /\ store' = [k \in DOMAIN store \ {u} |-> store[k]]
          /\ Rendered("run", view, selected_urn, query_params, store')
    /\ UNCHANGED shortlist
    /\ ViewFrame

NextView ==
    \/ Rerun
    \/ OpenFromList
    \/ OpenFromSidebar
    \/ ToggleAndRerun
    \/ BackToSearch
    \/ DatasetChanged

SpecView == InitView /\ [][NextView]_vars

(***************************************************************************)
(* The regex extractors of Chains/OfstedChains.py                          *)
(*                                                                         *)
(* A report text is a sequence of words, the full stop being a word of its *)
(* own; a document is a sequence of sentences, each ending in a full stop. *)
(* Three of the eighteen broad patterns (mathematics, leadership,          *)
(* teaching), the first of the eight subjects and three of the five        *)
(* per-keyword patterns are computed, word by word; the 'improvement'      *)
(* excerpt of an entry (a character window around the match) is left out   *)
(* of the entry.                                                           *)
(***************************************************************************)
MaxSentences == 4

Sentences ==
    { <<"improve", "teaching", "of", "maths", ".">>,
      <<"strengthen", "the", "teaching", "of", "mathematics", ".">>,
      <<"strengthen", "the", "teaching", "of", "maths", ".">>,
      <<"pupils", "are", "behind", "in", "maths", ".">>,
      <<"improve", "leadership", ".">>,
      <<"Improve", "leadership", ".">>,
      <<"maths", "is", "weak", ".">> }

Reports == UNION {[1..n -> Sentences] : n \in 1..MaxSentences}

RECURSIVE TextOf(_)
TextOf(doc) == IF doc = <<>> THEN <<>> ELSE Head(doc) \o TextOf(Tail(doc))

\* re.IGNORECASE / text.lower(), on the words of the vocabulary
LowerWord(w) == IF w = "Improve" THEN "improve" ELSE w

\* len(w)
WordLen(w) ==
    CASE w = "." -> 1
      [] w \in {"of", "is", "in"} -> 2
      [] w \in {"the", "are"} -> 3
      [] w = "weak" -> 4
      [] w = "maths" -> 5
      [] w \in {"pupils", "behind"} -> 6
      [] w \in {"improve", "Improve"} -> 7
      [] w = "teaching" -> 8
      [] w \in {"strengthen", "leadership"} -> 10
      [] w = "mathematics" -> 11

Tok(t, i) == IF i \in DOMAIN t THEN LowerWord(t[i]) ELSE ""

\* (?:improve|develop|strengthen|raise standards in|enhance) (?:the )?
\* (?:teaching of |...)?(?:mathematics|maths|numeracy), tried at word i:
\* the index of the last word matched, 0 when there is no match.
AfterThe(t, j) == IF Tok(t, j) = "the" THEN j + 1 ELSE j
AfterTeachingOf(t, j) ==
    IF Tok(t, j) = "teaching" /\ Tok(t, j + 1) = "of" THEN j + 2 ELSE j
EndAt(t, j, words) == IF Tok(t, j) \in words THEN j ELSE 0
MatchMaths(t, i) ==
    IF Tok(t, i) \in {"improve", "develop", "strengthen", "enhance"}
    THEN EndAt(t, AfterTeachingOf(t, AfterThe(t, i + 1)),
               {"mathematics", "maths", "numeracy"})
    ELSE 0

\* (?:strengthen|improve|develop) (?:leadership|...)
MatchLeadership(t, i) ==
    IF Tok(t, i) \in {"strengthen", "improve", "develop"}
    THEN EndAt(t, i + 1, {"leadership"})
    ELSE 0

\* (?:improve|ensure) (?:the quality of |...)?teaching
MatchTeaching(t, i) ==
    IF Tok(t, i) \in {"improve", "ensure"}
    THEN EndAt(t, i + 1, {"teaching"})
    ELSE 0

broad_improvement_patterns == <<"maths", "leadership", "teaching">>

MatchBroad(p, t, i) ==
    CASE p = "maths" -> MatchMaths(t, i)
      [] p = "leadership" -> MatchLeadership(t, i)
      [] p = "teaching" -> MatchTeaching(t, i)

\* re.finditer(pattern, pdf_text, re.IGNORECASE): the matches from left to
\* right, each search starting where the previous match ended.
RECURSIVE FindIter(_, _, _)
Found(p, t, pos, end) ==
    IF end = 0 THEN FindIter(p, t, pos + 1)
    ELSE <<SubSeq(t, pos, end)>> \o FindIter(p, t, end + 1)
FindIter(p, t, pos) ==
    IF pos > Len(t) THEN <<>> ELSE Found(p, t, pos, MatchBroad(p, t, pos))

\* _categorize_improvement on a match of the extractor's vocabulary, where a
\* keyword is contained in the text exactly when it is one of its words.
AnyWord(full_match, words) == \E i \in DOMAIN full_match : LowerWord(full_match[i]) \in words

CategorizeWords(full_match) ==
    IF AnyWord(full_match, {"mathematics", "maths", "numeracy"}) THEN "Mathematics"
    ELSE IF AnyWord(full_match, {"english", "literacy", "reading", "writing", "phonics"})
         THEN "English/Literacy"
    ELSE IF AnyWord(full_match, {"leadership", "leaders", "management"}) THEN "Leadership"
    ELSE IF AnyWord(full_match, {"teaching", "teachers", "pedagogy"}) THEN "Teaching Quality"
    ELSE "General Improvement"

KeyLen == 30

\* full_match[:n]: the words that fit, the last one cut where n runs out
\* (one character for the space after each word).
RECURSIVE Prefix(_, _)
Prefix(words, n) ==
    IF words = <<>> \/ n <= 0 THEN <<>>
    ELSE IF WordLen(Head(words)) >= n THEN <<[w |-> Head(words), chars |-> n]>>
    ELSE <<[w |-> Head(words), chars |-> WordLen(Head(words))]>>
         \o Prefix(Tail(words), n - WordLen(Head(words)) - 1)

\* key = f"{category}:{full_match[:30]}"
Key(category, full_match) == <<category, Prefix(full_match, KeyLen)>>

Improvement(category, full_match) ==
    [category |-> category, original_match |-> full_match]

\* The loop body with the `if key not in seen` test left out.
AddImprovement_unseen(acc, category, full_match) ==
    [improvements |-> Append(acc.improvements, Improvement(category, full_match)),
     seen |-> acc.seen \cup {Key(category, full_match)}]

\* if key not in seen: seen.add(key); improvements.append({...})
AddImprovement(acc, category, full_match) ==
    IF Key(category, full_match) \in acc.seen THEN acc
    ELSE [improvements |-> Append(acc.improvements, Improvement(category, full_match)),
          seen |-> acc.seen \cup {Key(category, full_match)}]

\* for match in matches
RECURSIVE AddMatches(_, _)
AddMatches(acc, matches) ==
    IF matches = <<>> THEN acc
    ELSE AddMatches(AddImprovement(acc, CategorizeWords(Head(matches)),
                                   Head(matches)),
                    Tail(matches))

\* for pattern in self.broad_improvement_patterns
RECURSIVE AddPatterns(_, _, _)
AddPatterns(acc, patterns, t) ==
    IF patterns = <<>> THEN acc
    ELSE AddPatterns(AddMatches(acc, FindIter(Head(patterns), t, 1)),
                     Tail(patterns), t)

_extract_broad_improvements(pdf_text) ==
    AddPatterns([improvements |-> <<>>, seen |-> {}],
                broad_improvement_patterns, pdf_text).improvements

key_subjects == [mathematics |-> <<"mathematics", "maths">>]

BadWords == {"weak", "poor", "inadequate", "below", "behind"}
ImproveWords == {"improve", "develop", "strengthen"}

\* The three per-keyword patterns as (first words, last words):
\*   f'{keyword}.*?(?:weak|poor|inadequate|below|behind|not good enough)'
\*   f'(?:weak|poor|inadequate|below|behind).*?{keyword}'
\*   f'(?:improve|develop|strengthen).*?{keyword}'
SubjectPatterns(keyword) ==
    << <<{keyword}, BadWords>>, <<BadWords, {keyword}>>, <<ImproveWords, {keyword}>> >>

\* first.*?last tried at word i: the nearest later last word, 0 if none
LaterWords(t, i, lasts) == {j \in DOMAIN t : j > i /\ Tok(t, j) \in lasts}
Nearest(S) == IF S = {} THEN 0 ELSE CHOOSE j \in S : \A k \in S : j <= k
MatchLazy(pat, t, i) ==
    IF Tok(t, i) \in pat[1] THEN Nearest(LaterWords(t, i, pat[2])) ELSE 0

\* text.rfind('.', 0, position), text.find('.', position), [start:end].strip()
StopsBefore(t, position) == {j \in DOMAIN t : j < position /\ t[j] = "."}
StopsFrom(t, position) == {j \in DOMAIN t : j >= position /\ t[j] = "."}
Last(S) == IF S = {} THEN 0 ELSE CHOOSE j \in S : \A k \in S : j >= k
_get_sentence_context(t, position) ==
    SubSeq(t, Last(StopsBefore(t, position)) + 1,
           IF StopsFrom(t, position) = {} THEN Len(t)
           ELSE Nearest(StopsFrom(t, position)))

\* len(context): words joined by one space, none before a full stop
RECURSIVE CharLen(_)
CharLen(words) ==
    IF words = <<>> THEN 0
    ELSE WordLen(Head(words))
         + (IF Tail(words) # <<>> /\ Head(Tail(words)) # "." THEN 1 ELSE 0)
         + CharLen(Tail(words))

MinContextLen == 20

\* if context and len(context) > 20: issues.append(context)
Kept(context) == IF CharLen(context) > MinContextLen THEN <<context>> ELSE <<>>

\* for match in re.finditer(pattern, pdf_text, re.IGNORECASE)
RECURSIVE PatternIssues(_, _, _)
IssuesFound(pat, t, pos, end) ==
    IF end = 0 THEN PatternIssues(pat, t, pos + 1)
    ELSE Kept(_get_sentence_context(t, pos)) \o PatternIssues(pat, t, end + 1)
PatternIssues(pat, t, pos) ==
    IF pos > Len(t) THEN <<>> ELSE IssuesFound(pat, t, pos, MatchLazy(pat, t, pos))

\* for pattern in patterns
RECURSIVE KeywordIssues(_, _)
KeywordIssues(patterns, t) ==
    IF patterns = <<>> THEN <<>>
    ELSE PatternIssues(Head(patterns), t, 1) \o KeywordIssues(Tail(patterns), t)

\* for keyword in keywords
RECURSIVE SubjectIssues(_, _)
SubjectIssues(keywords, t) ==
    IF keywords = <<>> THEN <<>>
    ELSE KeywordIssues(SubjectPatterns(Head(keywords)), t)
         \o SubjectIssues(Tail(keywords), t)

IssueCap == 3

Capped(o) == SubSeq(o, 1, IF Len(o) < IssueCap THEN Len(o) ELSE IssueCap)

UniqueIssues_uncapped(issues) == Orders({issues[i] : i \in DOMAIN issues})

\* list(set(issues))[:3]: a set of strings is iterated in the order of the
\* strings' hashes, which are salted afresh in every interpreter process, so
\* each order of the distinct issues is what some process produces.
UniqueIssues(issues) == {Capped(o) : o \in Orders({issues[i] : i \in DOMAIN issues})}

UniqueIssuesOf(subject, t) == UniqueIssues(SubjectIssues(key_subjects[subject], t))

\* if issues: subject_issues[subject] = unique_issues
SubjectsWithIssues(t) ==
    {s \in DOMAIN key_subjects : SubjectIssues(key_subjects[s], t) # <<>>}

\* Every dictionary _extract_subject_issues may return, given the lists each
\* subject may get.
SubjectDicts(lists) ==
    {d \in [DOMAIN lists -> UNION {lists[s] : s \in DOMAIN lists}] :
        \A s \in DOMAIN lists : d[s] \in lists[s]}

_extract_subject_issues(pdf_text) ==
    SubjectDicts([s \in SubjectsWithIssues(pdf_text) |-> UniqueIssuesOf(s, pdf_text)])

InitExtract ==
    /\ mode = "extract"
    /\ nIn \in Reports
    /\ nOut = NoCall
    /\ PrioIdle /\ FilesIdle /\ LoaderIdle /\ StepIdle /\ OfstedIdle /\ AppIdle

\* What the previous run of the same extractor returned, if there was one.
Before(fn) == IF nOut.fn = fn THEN <<nOut.ret.now>> ELSE <<>>

\* One run of the broad extractor on the document's text.
ExtractBroadImprovements ==
    /\ mode = "extract"
    /\ nOut' = Call("_extract_broad_improvements", TextOf(nIn),
                    [now |-> _extract_broad_improvements(TextOf(nIn)),
                     before |-> Before("_extract_broad_improvements")])
    /\ NormFrame

\* One run of the subject extractor on the document's text, in an
\* interpreter process of its own.
ExtractSubjectIssues ==
    /\ mode = "extract"
    /\ \E d \in _extract_subject_issues(TextOf(nIn)) :
          nOut' = Call("_extract_subject_issues", TextOf(nIn),
                       [now |-> d, before |-> Before("_extract_subject_issues")])
    /\ NormFrame

NextExtract ==
    \/ ExtractBroadImprovements
    \/ ExtractSubjectIssues

SpecExtract == InitExtract /\ [][NextExtract]_vars

(***************************************************************************)
(* The categorizer of Chains/OfstedChains.py on character strings          *)
(*                                                                         *)
(* `word in text_lower` is substring containment, so the texts are built   *)
(* from fragments that may join into a keyword or hold one inside a longer *)
(* word.                                                                   *)
(***************************************************************************)
\* word in text
Contains(text, word) ==
    \E i \in 0..(Len(text) - Len(word)) : SubSeq(text, i + 1, i + Len(word)) = word

\* any(word in text_lower for word in words)
AnyContained(text_lower, words) == \E word \in words : Contains(text_lower, word)

MathematicsWords ==
    {<<"m", "a", "t", "h", "e", "m", "a", "t", "i", "c", "s">>,
     <<"m", "a", "t", "h", "s">>,
     <<"n", "u", "m", "e", "r", "a", "c", "y">>}

EnglishWords ==
    {<<"e", "n", "g", "l", "i", "s", "h">>,
     <<"l", "i", "t", "e", "r", "a", "c", "y">>,
     <<"r", "e", "a", "d", "i", "n", "g">>,
     <<"w", "r", "i", "t", "i", "n", "g">>,
     <<"p", "h", "o", "n", "i", "c", "s">>}

ScienceWords ==
    {<<"s", "c", "i", "e", "n", "c", "e">>}

SendWords ==
    {<<"s", "e", "n", "d">>,
     <<"s", "p", "e", "c", "i", "a", "l", " ", "e", "d", "u", "c", "a", "t", "i", "o", "n", "a", "l">>}

BehaviourWords ==
    {<<"b", "e", "h", "a", "v", "i", "o", "u", "r">>,
     <<"a", "t", "t", "e", "n", "d", "a", "n", "c", "e">>,
     <<"e", "x", "c", "l", "u", "s", "i", "o", "n">>}

LeadershipWords ==
    {<<"l", "e", "a", "d", "e", "r", "s", "h", "i", "p">>,
     <<"l", "e", "a", "d", "e", "r", "s">>,
     <<"m", "a", "n", "a", "g", "e", "m", "e", "n", "t">>}

TeachingWords ==
    {<<"t", "e", "a", "c", "h", "i", "n", "g">>,
     <<"t", "e", "a", "c", "h", "e", "r", "s">>,
     <<"p", "e", "d", "a", "g", "o", "g", "y">>}

CurriculumWords ==
    {<<"c", "u", "r", "r", "i", "c", "u", "l", "u", "m">>,
     <<"p", "l", "a", "n", "n", "i", "n", "g">>,
     <<"s", "e", "q", "u", "e", "n", "c", "i", "n", "g">>}

AssessmentWords ==
    {<<"a", "s", "s", "e", "s", "s", "m", "e", "n", "t">>,
     <<"t", "r", "a", "c", "k", "i", "n", "g">>,
     <<"p", "r", "o", "g", "r", "e", "s", "s">>}

SafeguardingWords ==
    {<<"s", "a", "f", "e", "g", "u", "a", "r", "d", "i", "n", "g">>,
     <<"s", "a", "f", "e", "t", "y">>,
     <<"p", "r", "o", "t", "e", "c", "t", "i", "o", "n">>}

EarlyYearsWords ==
    {<<"e", "a", "r", "l", "y", " ", "y", "e", "a", "r", "s">>,
     <<"e", "y", "f", "s">>,
     <<"r", "e", "c", "e", "p", "t", "i", "o", "n">>}

_categorize_improvement_leadership_last(text) ==
    IF AnyContained(Lower(text), MathematicsWords) THEN "Mathematics"
    ELSE IF AnyContained(Lower(text), EnglishWords) THEN "English/Literacy"
    ELSE IF AnyContained(Lower(text), ScienceWords) THEN "Science"
    ELSE IF AnyContained(Lower(text), SendWords) THEN "SEND Provision"
    ELSE IF AnyContained(Lower(text), BehaviourWords) THEN "Behaviour/Attendance"
    ELSE IF AnyContained(Lower(text), TeachingWords) THEN "Teaching Quality"
    ELSE IF AnyContained(Lower(text), CurriculumWords) THEN "Curriculum"
    ELSE IF AnyContained(Lower(text), AssessmentWords) THEN "Assessment"
    ELSE IF AnyContained(Lower(text), SafeguardingWords) THEN "Safeguarding"
    ELSE IF AnyContained(Lower(text), EarlyYearsWords) THEN "Early Years"
    ELSE IF AnyContained(Lower(text), LeadershipWords) THEN "Leadership"
    ELSE "General Improvement"

\* The if/elif chain of _categorize_improvement.
_categorize_improvement(text) ==
    IF AnyContained(Lower(text), MathematicsWords) THEN "Mathematics"
    ELSE IF AnyContained(Lower(text), EnglishWords) THEN "English/Literacy"
    ELSE IF AnyContained(Lower(text), ScienceWords) THEN "Science"
    ELSE IF AnyContained(Lower(text), SendWords) THEN "SEND Provision"
    ELSE IF AnyContained(Lower(text), BehaviourWords) THEN "Behaviour/Attendance"
    ELSE IF AnyContained(Lower(text), LeadershipWords) THEN "Leadership"
    ELSE IF AnyContained(Lower(text), TeachingWords) THEN "Teaching Quality"
    ELSE IF AnyContained(Lower(text), CurriculumWords) THEN "Curriculum"
    ELSE IF AnyContained(Lower(text), AssessmentWords) THEN "Assessment"
    ELSE IF AnyContained(Lower(text), SafeguardingWords) THEN "Safeguarding"
    ELSE IF AnyContained(Lower(text), EarlyYearsWords) THEN "Early Years"
    ELSE "General Improvement"

MaxFragments == 2

Fragments ==
    {<<"m", "a", "t", "h">>,
     <<"s">>,
     <<"M", "a", "t", "h", "s">>,
     <<"W", "r", "i", "t", "i", "n", "g">>,
     <<"s", "c", "i", "e", "n", "c", "e">>,
     <<"S", "e", "n", "d">>,
     <<"a", "t", "t", "e", "n", "d", "a", "n", "c", "e">>,
     <<"l", "e", "a", "d", "e", "r", "s">>,
     <<"t", "e", "a", "c", "h", "e", "r", "s">>,
     <<"p", "l", "a", "n", "n", "i", "n", "g">>,
     <<"p", "r", "o", "g", "r", "e", "s", "s">>,
     <<"s", "a", "f", "e", "t", "y">>,
     <<"e", "y", "f", "s">>,
     <<"e", "a", "r", "l", "y">>,
     <<" ", "y", "e", "a", "r", "s">>,
     <<"p", "u", "p", "i", "l", "s">>,
     <<" ">>}

Texts == UNION {[1..n -> Fragments] : n \in 1..MaxFragments}

InitCategorize ==
    /\ mode = "categorize"
    /\ nIn \in {TextOf(t) : t \in Texts}
    /\ nOut = NoCall
    /\ PrioIdle /\ FilesIdle /\ LoaderIdle /\ StepIdle /\ OfstedIdle /\ AppIdle

\* self._categorize_improvement(text)
CategorizeImprovement ==
    /\ mode = "categorize"
    /\ nOut' = Call("_categorize_improvement", nIn, _categorize_improvement(nIn))
    /\ NormFrame

NextCategorize == CategorizeImprovement

SpecCategorize == InitCategorize /\ [][NextCategorize]_vars

(***************************************************************************)
(* The excerpt handed to the language model                                *)
(*                                                                         *)
(* A text is described by its length and by what str.find returns for each *)
(* of the five section phrases; an excerpt is the slice [from, to) of the  *)
(* text, positions counted from 0.                                         *)
(***************************************************************************)
WindowHalf == 1500
SectionWindow == 3000
ExcerptCap == 2500

\* len(section) of the five phrases of `sections`, in list order.
SectionLen == <<42, 21, 10, 26, 15>>

Smaller(a, b) == IF a < b THEN a ELSE b
Larger(a, b) == IF a < b THEN b ELSE a

\* The position a slice bound denotes in a sequence of n items: a negative
\* bound counts from the end, and every bound is clamped to 0..n.
SliceBound(n, b) == IF b < 0 THEN Larger(0, n + b) ELSE Smaller(b, n)

\* s[a:b] of the slice s = text[from:to)
SliceOf(s, a, b) ==
    [from |-> s.from + SliceBound(s.to - s.from, a),
     to |-> s.from + Larger(SliceBound(s.to - s.from, a), SliceBound(s.to - s.from, b))]

WholeText(n) == [from |-> 0, to |-> n]

\* for section in sections: idx = pdf_text.lower().find(section) ...
RECURSIVE FirstSection(_, _, _)
FirstSection(n, found, i) ==
    IF i > Len(found) THEN SliceOf(WholeText(n), (n \div 2) - WindowHalf, (n \div 2) + WindowHalf)
    ELSE IF found[i] # -1 THEN SliceOf(WholeText(n), found[i], found[i] + SectionWindow)
    ELSE FirstSection(n, found, i + 1)

_get_improvement_excerpt(text) == FirstSection(text.len, text.found, 1)

\* excerpt = self._get_improvement_excerpt(pdf_text)[:2500]
excerpt(text) == SliceOf(_get_improvement_excerpt(text), 0, ExcerptCap)

TextLengths == {0, 1, 2, 43, 1000, 1001, 1500, 1501, 2000, 2999, 3000, 3001, 6000}
FindResults == {-1, 0, 11, 1200, 2990}

\* What str.find can return on a text of n characters: a phrase found at
\* idx lies inside the text, and two phrases found at one position would
\* have to be prefixes of each other, which none of the five is.
CanFind(n, found) ==
    /\ \A i \in DOMAIN found : found[i] # -1 => found[i] + SectionLen[i] <= n
    /\ \A i, j \in DOMAIN found : (found[i] # -1 /\ found[i] = found[j]) => i = j

ExcerptInputs ==
    {[len |-> n, found |-> f] : n \in TextLengths, f \in [DOMAIN SectionLen -> FindResults]}

InitExcerpt ==
    /\ mode = "excerpt"
    /\ nIn \in {t \in ExcerptInputs : CanFind(t.len, t.found)}
    /\ nOut = NoCall
    /\ PrioIdle /\ FilesIdle /\ LoaderIdle /\ StepIdle /\ OfstedIdle /\ AppIdle

\* self._get_improvement_excerpt(pdf_text)[:2500]
GetImprovementExcerpt ==
    /\ mode = "excerpt"
    /\ nOut' = Call("_get_improvement_excerpt", nIn, excerpt(nIn))
    /\ NormFrame

NextExcerpt == GetImprovementExcerpt

SpecExcerpt == InitExcerpt /\ [][NextExcerpt]_vars

(***************************************************************************)
(* The starter rules of Chains/OfstedChains.py on every reply of the       *)
(* Ofsted-improvement schema, each entry present or absent                 *)
(***************************************************************************)
AnalysisKeys ==
    {"main_improvements", "maths_urgency", "english_urgency", "send", "leadership",
     "priority_order"}

Urgencies == {"HIGH", "MEDIUM", "LOW"}
IssueLists == {<<>>, <<"issue">>}
MaxPriorities == 3

FullAnalyses ==
    [tag : {"dict"}, main_improvements : {<<>>, <<"Mathematics">>},
     maths_urgency : Urgencies, english_urgency : Urgencies,
     send : IssueLists, leadership : IssueLists, priority_order : 0..MaxPriorities]

\* The reply with only the entries named in keys.
Only(analysis, keys) == [k \in keys \cup {"tag"} |-> analysis[k]]

Analyses == {Only(a, keys) : a \in FullAnalyses, keys \in SUBSET AnalysisKeys}

ReportUrls == {FileUrl("serper", 1, 1), FileUrl("site search", 0, 1)}

InitStarters ==
    /\ mode = "starters"
    /\ nIn \in [analysis : Analyses, report_url : ReportUrls]
    /\ nOut = NoCall
    /\ PrioIdle /\ FilesIdle /\ LoaderIdle /\ StepIdle /\ OfstedIdle /\ AppIdle

\* self._generate_conversation_starters(analysis, report_url, school_name)
GenerateConversationStarters ==
    /\ mode = "starters"
    /\ nOut' = Call("_generate_conversation_starters", nIn,
                    generate_conversation_starters(nIn.analysis, nIn.report_url))
    /\ NormFrame

NextStarters == GenerateConversationStarters

SpecStarters == InitStarters /\ [][NextStarters]_vars

(***************************************************************************)
(* The combined priority of a School (models_v2.py)                        *)
(***************************************************************************)
EhcPercentHigh == 5
EhcPlanHigh == 10
EhcPlanMedium == 5
SenSupportMedium == 30

\* ehc_pct and ehc_pct > 5, where ehc_pct = ((ehc_plan or 0) / total_pupils)
\* * 100 and is None without a pupil count: the quotient of two small ints
\* times 100 is above 5 exactly when 100 * ehc_plan is above 5 * total_pupils.
EhcPercentageAbove(sd, pct) ==
    /\ OrZero(sd.total_pupils) # 0
    /\ OrZero(sd.ehc_plan) * 100 > pct * sd.total_pupils.v

\* SENDData.get_send_priority_level
get_send_priority_level(sd) ==
    IF sd.has_sen_unit \/ sd.has_resourced_provision THEN "HIGH"
    ELSE IF EhcPercentageAbove(sd, EhcPercentHigh) THEN "HIGH"
    ELSE IF OrZero(sd.ehc_plan) >= EhcPlanHigh THEN "HIGH"
    ELSE IF OrZero(sd.ehc_plan) >= EhcPlanMedium
            \/ OrZero(sd.sen_support) >= SenSupportMedium THEN "MEDIUM"
    ELSE "LOW"

\* School.get_send_priority
get_send_priority(school) ==
    IF school.send # None THEN get_send_priority_level(school.send) ELSE "UNKNOWN"

\* The returns of get_combined_priority, given the two priorities.
HighOrMedium(fin_priority, send_priority) ==
    IF fin_priority = "HIGH" \/ send_priority = "HIGH" THEN "HIGH"
    ELSE IF fin_priority = "MEDIUM" \/ send_priority = "MEDIUM" THEN "MEDIUM"
    ELSE "LOW"

\* Two unknown priorities give UNKNOWN.
get_combined_priority_unknown(school) ==
    IF get_sales_priority(school) = "UNKNOWN" /\ get_send_priority(school) = "UNKNOWN"
    THEN "UNKNOWN"
    ELSE HighOrMedium(get_sales_priority(school), get_send_priority(school))

\* School.get_combined_priority
get_combined_priority(school) ==
    HighOrMedium(get_sales_priority(school), get_send_priority(school))

PlanValues == {None, IntV(0), IntV(4), IntV(5), IntV(9), IntV(10)}
SupportValues == {None, IntV(29), IntV(30)}
PupilValues == {None, IntV(0), IntV(100), IntV(179), IntV(180)}

SchoolSendObjects ==
    [total_pupils : PupilValues, sen_support : SupportValues, ehc_plan : PlanValues,
     has_sen_unit : BOOLEAN, has_resourced_provision : BOOLEAN,
     ehc_asd : {None}, ehc_semh : {None}]

InitCombined ==
    /\ mode = "combined"
    /\ fdata \in FinancialObjects \cup {None}
    /\ sdata \in SchoolSendObjects \cup {None}
    /\ pOut = NoCall
    /\ NormIdle /\ FilesIdle /\ LoaderIdle /\ StepIdle /\ OfstedIdle /\ AppIdle

\* school.get_combined_priority() on the School with these two parts
GetCombinedPriority ==
    /\ mode = "combined"
    /\ pOut' = Call("get_combined_priority", None,
                    get_combined_priority([financial |-> fdata, send |-> sdata]))
    /\ PrioFrame

NextCombined == GetCombinedPriority

SpecCombined == InitCombined /\ [][NextCombined]_vars

(***************************************************************************)
(* Properties of the coercions                                             *)
(***************************************************************************)
NanAnyCase(x) == IsStr(x) /\ Lower(x.v) = <<"n", "a", "n">>

\* C6: identifier cleaning is idempotent, clean(clean(x)) = clean(x), for
\* every input for which clean(x) returns, and it returns null for the empty
\* string, for "nan" in any letter case and for null.
C6_CleanIdempotent ==
    mode = "norm" =>
        /\ nOut.fn = "_clean_urn twice" => nOut.ret = nOut.arg
        /\ (nOut.fn = "_clean_urn"
              /\ (IsNone(nIn) \/ nIn = Str(<<>>) \/ NanAnyCase(nIn)))
           => nOut.ret = None

\* A string float() reads as a finite number.
ValidFinite(x) ==
    /\ IsStr(x)
    /\ ~IsRaise(PyFloat(x.v))
    /\ PyFloat(x.v).kind = "fin"

\* C7: every coercion returns for every input (none raises), and the numeric
\* coercions return null for an input that is not a valid finite number.
C7_CoercionsTotal ==
    mode = "norm" =>
        /\ ~IsRaise(nOut.ret)
        /\ (nOut.fn \in {"_safe_float", "_safe_int"} /\ ~ValidFinite(nIn))
           => nOut.ret = None

\* A candidate value that cannot be used: null, empty, whitespace only, or
\* 'nan'.
Unusable(value) ==
    \/ IsNone(value)
    \/ Strip(value.v) = <<>>
    \/ Lower(value.v) \in NanWord
FirstUsable(c) ==
    IF ~Unusable(c.first) THEN c.first
    ELSE IF ~Unusable(c.later) THEN c.later
    ELSE None

\* C20: a field with several candidate columns takes its value from the
\* first candidate, in listed order, that is not null, empty, whitespace
\* only or 'nan': the string fields its trimmed text, never the empty string,
\* the numeric financial fields its number.
C20_FirstUsableCandidate ==
    mode = "fallback" =>
        /\ nOut.fn = "_get_value" =>
              /\ nOut.ret = IF IsNone(FirstUsable(nIn)) THEN None
                            ELSE Str(Strip(FirstUsable(nIn).v))
              /\ nOut.ret # Str(<<>>)
        /\ nOut.fn = "total_expenditure" =>
              nOut.ret = safe_float(FirstUsable(nIn))

(***************************************************************************)
(* Properties of the priority functions                                    *)
(***************************************************************************)
\* C8: the financial priority level is a step function of
\* total_teaching_support_costs alone: null gives UNKNOWN, a value >= 500000
\* HIGH, a value in [200000, 500000) MEDIUM, a value < 200000 LOW, whatever
\* the other fields hold.
C8_PriorityStep ==
    pOut.fn = "get_priority_level" =>
        LET c == fdata.total_teaching_support_costs
        IN  /\ IsNone(c) => pOut.ret = "UNKNOWN"
            /\ (~IsNone(c) /\ c.kind = "inf") => pOut.ret = "HIGH"
            /\ (~IsNone(c) /\ c.kind = "fin") =>
                   pOut.ret = IF c.whole >= 500000 THEN "HIGH"
                              ELSE IF c.whole >= 200000 THEN "MEDIUM"
                              ELSE "LOW"

\* 500000 exactly gives HIGH next to a total expenditure that is set.
C8_Witness ==
    /\ pOut.fn = "get_priority_level"
    /\ fdata.total_teaching_support_costs = Flt("fin", 500000, <<>>)
    /\ fdata.total_expenditure = Flt("fin", 0, <<>>)
    /\ pOut.ret = "HIGH"

Flag(b) == IF b THEN 1 ELSE 0
Count(x) == IF x = None THEN 0 ELSE x.v

\* C9: the SEND priority score is 50*[has_sen_unit] +
\* 50*[has_resourced_provision] + 3*ehc_plan + sen_support + 2*ehc_asd +
\* 2*ehc_semh, a null count counting as 0.
C9_SendScore ==
    pOut.fn = "get_send_priority_score" =>
        pOut.ret = 50 * Flag(sdata.has_sen_unit)
                   + 50 * Flag(sdata.has_resourced_provision)
                   + 3 * Count(sdata.ehc_plan) + Count(sdata.sen_support)
                   + 2 * Count(sdata.ehc_asd) + 2 * Count(sdata.ehc_semh)

\* An EHC-plan count of 10 with both facility flags set and null need counts
\* scores 130.
C9_Witness ==
    /\ pOut.fn = "get_send_priority_score"
    /\ sdata.has_sen_unit /\ sdata.has_resourced_provision
    /\ sdata.ehc_plan = IntV(10)
    /\ sdata.sen_support = IntV(0)
    /\ sdata.ehc_asd = None /\ sdata.ehc_semh = None
    /\ pOut.ret = 130

(***************************************************************************)
(* Properties of the merge and of the loader                               *)
(***************************************************************************)
\* A load() or refresh() that read the files as they are now, and returned.
LoadedNow ==
    /\ mode = "loader"
    /\ \/ ret.fn = "refresh"
       \/ ret.fn = "load" /\ edits = 0
    /\ ~IsRaise(ret.ret)

GiasData == load_gias_csv(gias_csv).v
FinancialData == load_financial_csv(fin_csv).v

\* Both rows hold a value under column c, and the two values differ.
Conflict(g, f, c) ==
    /\ c \in DOMAIN g /\ c \in DOMAIN f
    /\ Strip(g[c]) # <<>> /\ Strip(f[c]) # <<>>
    /\ g[c] # f[c]

CostColumn == "TotalTeachingSupportStaffCosts"

C2_DistinctAndComplete ==
    LoadedNow =>
        /\ \A i, j \in DOMAIN ret.ret.v :
              ret.ret.v[i].urn = ret.ret.v[j].urn => i = j
        /\ Len(ret.ret.v) = Cardinality(AllUrns(GiasData, FinancialData))

\* C3: a defective row never makes load() fail: load() and refresh() return
\* whatever the rows of the three files hold.
C3_LoadNeverFails ==
    (mode = "loader" /\ ret.fn \in {"load", "refresh"}) => ~IsRaise(ret.ret)

SendData == load_send_csv(send_csv).v
LoadedUrns == {ret.ret.v[i].urn : i \in DOMAIN ret.ret.v}

\* C17: the identifiers of the loaded Schools are exactly the union of the
\* directory source's and the financial source's cleaned identifiers (an
\* identifier of the SEND source alone yields no School), and a School has
\* SEND data attached exactly when its identifier occurs in the SEND source.
C17_UnionWithSendAttached ==
    LoadedNow =>
        /\ LoadedUrns = AllUrns(GiasData, FinancialData)
        /\ \A i \in DOMAIN ret.ret.v :
              (ret.ret.v[i].send # None) <=> (ret.ret.v[i].urn \in DOMAIN SendData)

\* A call that reads the loader found the dataset cached and left it as it
\* was, answering from it.
ServedFromCache ==
    /\ cache' = cache /\ by_name' = by_name /\ by_urn' = by_urn
    /\ ret'.fn = "load" => ret'.ret = cache
    /\ ret'.fn = "get_school_by_name" => ret'.ret = Lookup(by_name, ret'.arg.v)
    /\ ret'.fn = "get_school_by_urn" =>
          ret'.ret = LookupClean(by_urn, clean_urn(ret'.arg))

\* After the call the loader holds a dataset built from the files as they
\* are now, and nothing else.
RebuiltFromSources ==
    /\ cache' # None
    /\ cache' \in load_and_merge_csvs(gias_csv', fin_csv', send_csv')
    /\ by_name' = schools_by_name(cache'.v)
    /\ by_urn' = schools_by_urn(cache'.v)

\* C19: the loaded dataset is held until an explicit refresh: once a load()
\* has succeeded every later load() and every query answers from the cached
\* set without reading the files again, and refresh() discards and rebuilds:
\* after it the list and both indexes hold exactly the schools of the files
\* as they are now.
C19_HeldUntilRefresh ==
    [][ /\ (mode = "loader" /\ cache # None
              /\ ret'.fn \in {"load", "get_school_by_urn", "get_school_by_name"}) =>
                ServedFromCache
        /\ (mode = "loader" /\ ret'.fn = "refresh") => RebuiltFromSources ]_vars

\* A financial row with no status column, an empty status, or 'success'.
StatusKept(row) ==
    \/ "status" \notin DOMAIN row
    \/ row["status"] = <<>>
    \/ row["status"] = SuccessWord

FinancialUrn(row) == clean_urn(Or(Get(row, "URN"), Get(row, "urn")))
KeptUrns ==
    {FinancialUrn(fin_csv[i]).v :
        i \in {j \in DOMAIN fin_csv :
                  /\ StatusKept(fin_csv[j])
                  /\ IsStr(FinancialUrn(fin_csv[j]))
                  /\ FinancialUrn(fin_csv[j]).v # <<>>}}

\* C21: a financial row with an explicit non-success status contributes
\* nothing: the loaded dataset is the one the files give with those rows
\* taken out, so such a row adds no identifier, none of its values reaches a
\* School, and it neither removes nor replaces an earlier kept row; the rows
\* with no, an empty or a 'success' status are the ones loaded.
C21_NonSuccessRowsSkipped ==
    LoadedNow =>
        /\ ret.ret \in load_and_merge_csvs(gias_csv, SelectSeq(fin_csv, StatusKept),
                                           send_csv)
        /\ DOMAIN FinancialData = KeptUrns

\* A 'success' row followed by a 'failed' row of the same identifier: the
\* School carries the cost of the first.
C21_Witness ==
    /\ LoadedNow
    /\ Len(fin_csv) = 2
    /\ Get(fin_csv[1], "status") = Str(SuccessWord)
    /\ Get(fin_csv[2], "status") = Str(FailedWord)
    /\ Get(fin_csv[2], "URN") = Get(fin_csv[1], "URN")
    /\ \E i \in DOMAIN ret.ret.v :
          /\ ret.ret.v[i].urn = <<"1">>
          /\ ret.ret.v[i].financial.total_teaching_support_costs = Flt("fin", 550000, <<>>)

\* The rows of the directory file, and the rows of the financial file that
\* pass the status test, whose identifier cleans to u.
GiasRowsOf(u) ==
    {i \in DOMAIN gias_csv :
        clean_urn(Or(Get(gias_csv[i], "urn"), Get(gias_csv[i], "URN"))) = Str(u)}
FinancialRowsOf(u) ==
    {i \in DOMAIN fin_csv :
        /\ ~NotSuccess(Get(fin_csv[i], "status"))
        /\ clean_urn(Or(Get(fin_csv[i], "URN"), Get(fin_csv[i], "urn"))) = Str(u)}

\* The priority level of the teaching-support cost a financial row holds.
PriorityOfRow(f) ==
    get_priority_level(
        [total_teaching_support_costs |->
             safe_float(Or(Get(f, "TotalTeachingSupportStaffCosts"),
                           Get(f, "total_teaching_support_costs"))),
         total_expenditure |-> None])

\* C10: an identifier with one financial row (success or no status) and one
\* directory row gets exactly one School, named by the directory row's
\* school_name, whose sales priority is the priority level of the financial
\* row's total teaching-support cost.
C10_OneSchoolPerPair ==
    LoadedNow =>
        \A u \in DOMAIN GiasData \cap DOMAIN FinancialData :
            (Cardinality(GiasRowsOf(u)) = 1 /\ Cardinality(FinancialRowsOf(u)) = 1) =>
                /\ Cardinality({i \in DOMAIN ret.ret.v : ret.ret.v[i].urn = u}) = 1
                /\ \A i \in DOMAIN ret.ret.v :
                      ret.ret.v[i].urn = u =>
                          /\ ret.ret.v[i].school_name = Strip(GiasData[u]["school_name"])
                          /\ get_sales_priority(ret.ret.v[i])
                                 = PriorityOfRow(FinancialData[u])

(***************************************************************************)
(* Properties of refresh()                                                 *)
(***************************************************************************)
\* The complete datasets a refresh may show: the one it started from, and
\* the one it has built.
CompleteDatasets ==
    {old} \cup (IF built # None /\ ~IsRaise(built) THEN {DatasetOf(built)} ELSE {})

\* C4: from the call of refresh() on a loaded loader, the cache and the two
\* indexes are at every point all the old dataset or all the new one, for
\* the refreshing request and for any request reading the loader meanwhile.
C4_BuildThenSwap ==
    (mode = "conc" /\ old # None /\ old.cache # None) =>
        /\ Snapshot \in CompleteDatasets
        /\ seen # None => seen \in CompleteDatasets

(***************************************************************************)
(* Properties of the Ofsted analysis                                       *)
(***************************************************************************)
\* Neither the keyed search nor the fallback scrape finds a report.
NoReportFound(e) ==
    /\ e.serper_key =>
          \A i \in 1..NumQueries :
              /\ e.queries[i] # "pdf"
              /\ e.queries[i] = "page" => e.page # "pdf"
    /\ e.direct # "pdf"
    /\ e.direct = "provider" => e.page # "pdf"

\* C5: analyze never raises, whatever the external steps do; and when
\* neither search finds a report its result has no rating, no inspection
\* date, no report URL and no starters, and a non-empty error string.
C5_AnalyzeNeverRaises ==
    (mode = "ofsted" /\ result # None) =>
        /\ result.tag = "return"
        /\ NoReportFound(env) =>
              /\ result.v.rating = None
              /\ result.v.inspection_date = None
              /\ result.v.report_url = None
              /\ result.v.conversation_starters = <<>>
              /\ NonEmpty(result.v.error)

C5_Witness ==
    /\ mode = "ofsted" /\ result # None
    /\ env.serper_key
    /\ env.queries[1] = "page" /\ env.page = "error" /\ env.direct = "provider"
    /\ NoReportFound(env)
    /\ result.tag = "return"
    /\ result.v.error = Str(NoReportMsg)

(***************************************************************************)
(* Properties of the Report Locator                                        *)
(***************************************************************************)
Produces(kind) == kind \in {"pdf", "page-pdf"}

\* The (query, rank) positions of the search results that lead to a PDF, and
\* the ranks of the site-search links that do.
HitsOf(response) ==
    {k \in DOMAIN response.links : response.status = "ok" /\ Produces(response.links[k])}
SearchHits(e) ==
    IF e.serper_key
    THEN UNION {{<<i, k>> : k \in HitsOf(e.queries[i])} : i \in 1..NumQueries}
    ELSE {}
FirstHit(S) ==
    CHOOSE h \in S : \A g \in S : h[1] < g[1] \/ (h[1] = g[1] /\ h[2] <= g[2])
UrlAt(response, via, i, k) ==
    FileUrl(IF response.links[k] = "pdf" THEN via ELSE "page", i, k)
ExpectedUrl(e) ==
    IF SearchHits(e) # {}
    THEN UrlAt(e.queries[FirstHit(SearchHits(e))[1]], "serper",
               FirstHit(SearchHits(e))[1], FirstHit(SearchHits(e))[2])
    ELSE IF HitsOf(e.direct) # {}
    THEN UrlAt(e.direct, "site search", 0, Nearest(HitsOf(e.direct)))
    ELSE None

Issued(log, r) == \E a \in DOMAIN log : log[a] = r

\* C14: the locator tries its strategies in a fixed order: with a search key
\* the three queries in listed order and each query's results in ranked
\* order (a PDF link, else a PDF link found on the result's page), and the
\* site search only when none of them produced a URL or when no key is
\* configured; it returns the first URL produced in that order, and null
\* exactly when every strategy produced nothing.
C14_FixedOrderFirstUrl ==
    (mode = "locator" /\ result # None) =>
        /\ result.url = ExpectedUrl(env)
        /\ result.url = None <=> (SearchHits(env) = {} /\ HitsOf(env.direct) = {})
        /\ \A a, b \in DOMAIN result.log :
              (a < b /\ result.log[b].req = "serper") =>
                  /\ result.log[a].req # "site search"
                  /\ result.log[a].query <= result.log[b].query
                  /\ result.log[a].req = "serper" =>
                        result.log[a].query < result.log[b].query
        /\ \A a, b \in DOMAIN result.log :
              (a < b /\ result.log[a].query = result.log[b].query
                  /\ result.log[a].req = "page" /\ result.log[b].req = "page") =>
                  result.log[a].rank < result.log[b].rank
        /\ Issued(result.log, DirectReq) <=> (~env.serper_key \/ SearchHits(env) = {})
        /\ ~env.serper_key => result.log[1] = DirectReq

\* The first two queries produce nothing, the third has a page without a PDF
\* link at rank 1 and a PDF link at rank 2, and the site search has a PDF
\* link too: the rank-2 link of the third query is returned.
C14_Witness ==
    /\ mode = "locator" /\ result # None
    /\ env.serper_key
    /\ env.queries[1] = Failed("error")
    /\ env.queries[2] = Ok(<<"other">>)
    /\ env.queries[3] = Ok(<<"page-error", "pdf">>)
    /\ env.direct = Ok(<<"pdf">>)
    /\ result.url = FileUrl("serper", 3, 2)
    /\ result.log = <<SearchReq(1), SearchReq(2), SearchReq(3), PageReq(3, 1)>>

NextStrategy(i) == IF i < NumQueries THEN SearchReq(i + 1) ELSE DirectReq

\* C15: a failed call (an exception, a timeout, a status other than 200) for
\* one query or strategy never aborts the lookup and is never retried: every
\* request is issued at most once per lookup, the next query or strategy is
\* attempted after a failure, and the lookup ends with a URL or null.
C15_NoAbortNoRetry ==
    (mode = "locator" /\ result # None) =>
        /\ \A a, b \in DOMAIN result.log : result.log[a] = result.log[b] => a = b
        /\ \A i \in 1..NumQueries :
              (Issued(result.log, SearchReq(i)) /\ env.queries[i].status # "ok") =>
                  Issued(result.log, NextStrategy(i))
        /\ \A i \in 1..NumQueries : \A k \in 1..MaxResults :
              (Issued(result.log, PageReq(i, k)) /\ env.queries[i].links[k] = "page-error") =>
                  \/ Issued(result.log, NextStrategy(i))
                  \/ result.url = ExpectedUrl(env) /\ result.url # None
        /\ result.url = None \/ result.url.tag = "str"

\* Every request of the lookup fails, each was issued once, in order.
C15_Witness ==
    /\ mode = "locator" /\ result # None
    /\ env.serper_key
    /\ env.queries[1] = Failed("error")
    /\ env.queries[2] = Failed("non200")
    /\ env.queries[3] = Ok(<<"page-error">>)
    /\ env.direct = Failed("error")
    /\ result.url = None
    /\ result.log = <<SearchReq(1), SearchReq(2), SearchReq(3), PageReq(3, 1), DirectReq>>

\* The analysis got as far as the model call: a report was found and its
\* text extracted.
ReachedModelStep(e) ==
    /\ NonEmpty(find_ofsted_report_url(LocatorEnv(e)).url)
    /\ e.download = "text"

\* C16: when the model call fails or its reply is not JSON, the model step
\* yields the empty structured result; then, and also when the reply is JSON
\* but not an object, analyze returns with no conversation starters and with
\* the report URL, rating and inspection date it had extracted.
C16_ModelFailureRecovered ==
    (mode = "ofsted" /\ result # None /\ ReachedModelStep(env)
        /\ env.llm.tag \in {"raise", "list"}) =>
        /\ env.llm.tag = "raise" => analyze_with_llm(env) = EmptyAnalysis
        /\ result.tag = "return"
        /\ result.v.conversation_starters = <<>>
        /\ result.v.report_url = find_ofsted_report_url(LocatorEnv(env)).url
        /\ result.v.rating = env.doc.rating
        /\ result.v.inspection_date = env.doc.inspection_date

C16_Witness ==
    /\ mode = "ofsted" /\ result # None
    /\ env.llm.tag = "raise"
    /\ ReachedModelStep(env)
    /\ result.tag = "return"
    /\ result.v.rating = Str("Good")
    /\ result.v.report_url = FileUrl("serper", 1, 1)
    /\ result.v.conversation_starters = <<>>
    /\ result.v.error = None

(***************************************************************************)
(* Properties of the dashboard session                                     *)
(***************************************************************************)
SheetNames(wb) == {wb[i].sheet_name : i \in DOMAIN wb}

\* C11: the export of a shortlist of one or more schools holds both sheets,
\* the school summary and the conversation starters, also when no
\* shortlisted school has a starter.
C11_BothSheets ==
    (mode = "app" /\ appCall.fn = "export") =>
        SheetNames(appCall.ret) = {"School Summary", "Conversation Starters"}

OfstedStarters(school) == SelectSeq(school.conversation_starters, IsOfstedStarter)
FinancialStarters(school) == SelectSeq(school.conversation_starters, IsFinancialStarter)
EntryOf(sl, urn) == sl[CHOOSE i \in DOMAIN sl : sl[i].urn = urn]

InsertAt(doc, j, s) == SubSeq(doc, 1, j) \o <<s>> \o SubSeq(doc, j + 1, Len(doc))
KeyOf(entry) == Key(entry.category, entry.original_match)

\* C12: the broad-improvement extractor never returns two entries with the
\* same (category, first 30 characters of the matched text) pair, and the
\* document with one of its sentences occurring once more, anywhere, yields
\* the same number of entries.
C12_NoDuplicateImprovement ==
    (mode = "extract" /\ nOut.fn = "_extract_broad_improvements") =>
        /\ \A i, j \in DOMAIN nOut.ret.now :
              KeyOf(nOut.ret.now[i]) = KeyOf(nOut.ret.now[j]) => i = j
        /\ \A i \in DOMAIN nIn : \A j \in 0..Len(nIn) :
              Len(_extract_broad_improvements(TextOf(InsertAt(nIn, j, nIn[i]))))
                  = Len(nOut.ret.now)

\* A document made of the same sentence twice, whose two matches (one per
\* pattern) each gave one entry.
C12_Witness ==
    /\ mode = "extract"
    /\ nOut.fn = "_extract_broad_improvements"
    /\ Len(nIn) = 2
    /\ nIn[1] = nIn[2]
    /\ Len(nOut.ret.now) = 2

\* C13: both extractors are deterministic functions of the text: two runs on
\* the same text, in the same or in different processes, return equal
\* results, including which issues survive the per-subject cap.
C13_ExtractorsDeterministic ==
    (mode = "extract" /\ nOut.fn # "none" /\ nOut.ret.before # <<>>) =>
        nOut.ret.now = nOut.ret.before[1]

(***************************************************************************)
(* Properties of the categorizer                                           *)
(***************************************************************************)
\* The categories in priority order, each with its keywords.
PriorityOrder ==
    << [category |-> "Mathematics", words |-> MathematicsWords],
       [category |-> "English/Literacy", words |-> EnglishWords],
       [category |-> "Science", words |-> ScienceWords],
       [category |-> "SEND Provision", words |-> SendWords],
       [category |-> "Behaviour/Attendance", words |-> BehaviourWords],
       [category |-> "Leadership", words |-> LeadershipWords],
       [category |-> "Teaching Quality", words |-> TeachingWords],
       [category |-> "Curriculum", words |-> CurriculumWords],
       [category |-> "Assessment", words |-> AssessmentWords],
       [category |-> "Safeguarding", words |-> SafeguardingWords],
       [category |-> "Early Years", words |-> EarlyYearsWords] >>

\* The positions of the categories with a keyword contained in the text.
Matching(text_lower) ==
    {i \in DOMAIN PriorityOrder : AnyContained(text_lower, PriorityOrder[i].words)}

FirstOf(S) == CHOOSE i \in S : \A j \in S : i <= j

FirstMatch(text_lower) ==
    IF Matching(text_lower) = {} THEN "General Improvement"
    ELSE PriorityOrder[FirstOf(Matching(text_lower))].category

\* C22: the category of a text is that of the first category, in the fixed
\* priority order, with a keyword contained in the lower-cased text, and
\* 'General Improvement' exactly when no category has one.
C22_FirstMatchWins ==
    (mode = "categorize" /\ nOut.fn = "_categorize_improvement") =>
        /\ nOut.ret = FirstMatch(Lower(nIn))
        /\ nOut.ret = "General Improvement" <=> Matching(Lower(nIn)) = {}

\* A text with keywords of two categories, the later one first in the text.
C22_Witness ==
    /\ mode = "categorize"
    /\ nOut.fn = "_categorize_improvement"
    /\ nIn = <<"t", "e", "a", "c", "h", "e", "r", "s", "l", "e", "a", "d", "e", "r", "s">>
    /\ nOut.ret = "Leadership"

(***************************************************************************)
(* Properties of the excerpt                                               *)
(***************************************************************************)
NoSectionFound(text) == \A i \in DOMAIN text.found : text.found[i] = -1

FirstFound(text) == text.found[FirstOf({i \in DOMAIN text.found : text.found[i] # -1})]

\* C23: the excerpt is a bounded window of the text: with a section phrase
\* in the text it starts at the first occurrence of the first such phrase in
\* list order; otherwise it contains the character at the midpoint of the
\* text and is the whole text when the text is no longer than the cap; its
\* length never exceeds the cap.
C23_ExcerptWindow ==
    (mode = "excerpt" /\ nOut.fn = "_get_improvement_excerpt") =>
        /\ nOut.ret.to - nOut.ret.from <= ExcerptCap
        /\ 0 <= nOut.ret.from /\ nOut.ret.to <= nIn.len
        /\ ~NoSectionFound(nIn) => nOut.ret.from = FirstFound(nIn)
        /\ (NoSectionFound(nIn) /\ nIn.len > 0) =>
              /\ nOut.ret.from <= nIn.len \div 2
              /\ nIn.len \div 2 < nOut.ret.to
        /\ (NoSectionFound(nIn) /\ nIn.len <= ExcerptCap) =>
              nOut.ret = WholeText(nIn.len)

(***************************************************************************)
(* Properties of the subject-issue extractor                               *)
(***************************************************************************)
\* The positions of the text where a problem pattern of one of the
\* subject's keywords matches.
MatchStarts(subject, t) ==
    {pos \in DOMAIN t :
        \E k \in DOMAIN key_subjects[subject] :
            \E p \in DOMAIN SubjectPatterns(key_subjects[subject][k]) :
                MatchLazy(SubjectPatterns(key_subjects[subject][k])[p], t, pos) # 0}

\* The words a..b of the text are the sentence around pos: they start after
\* a full stop or at the beginning of the text, end with the first full stop
\* from pos on or at the end of the text, and hold no full stop between a
\* and pos.
IsSentenceAround(t, a, b, pos) ==
    /\ a <= pos /\ pos <= b
    /\ a = 1 \/ t[a - 1] = "."
    /\ \A j \in a..(pos - 1) : t[j] # "."
    /\ \A j \in pos..(b - 1) : t[j] # "."
    /\ b = Len(t) \/ t[b] = "."

SentenceOfMatch(subject, t, issue) ==
    \E pos \in MatchStarts(subject, t) :
        \E a, b \in DOMAIN t :
            IsSentenceAround(t, a, b, pos) /\ issue = SubSeq(t, a, b)

\* C24: the subject-issue extractor returns, per subject, at most 3 issues,
\* pairwise distinct, each the full sentence containing the start of a match
\* and longer than 20 characters; a subject with no issue is absent from
\* the result.
C24_SubjectIssuesCapped ==
    (mode = "extract" /\ nOut.fn = "_extract_subject_issues") =>
        /\ DOMAIN nOut.ret.now \subseteq DOMAIN key_subjects
        /\ \A s \in DOMAIN nOut.ret.now :
              /\ nOut.ret.now[s] # <<>>
              /\ Len(nOut.ret.now[s]) <= 3
              /\ \A i, j \in DOMAIN nOut.ret.now[s] :
                    nOut.ret.now[s][i] = nOut.ret.now[s][j] => i = j
              /\ \A i \in DOMAIN nOut.ret.now[s] :
                    /\ SentenceOfMatch(s, nOut.arg, nOut.ret.now[s][i])
                    /\ CharLen(nOut.ret.now[s][i]) > 20

\* A text with four different sentences that each hold a match and are
\* longer than 20 characters: three of them are returned.
C24_Witness ==
    /\ mode = "extract"
    /\ nOut.fn = "_extract_subject_issues"
    /\ Cardinality({SubjectIssues(key_subjects.mathematics, nOut.arg)[i] :
                        i \in DOMAIN SubjectIssues(key_subjects.mathematics, nOut.arg)}) = 4
    /\ Len(nOut.ret.now.mathematics) = 3

\* A text whose only match lies in a sentence of 14 characters: the subject
\* is absent.
C24_WitnessShort ==
    /\ mode = "extract"
    /\ nOut.fn = "_extract_subject_issues"
    /\ nOut.arg = <<"maths", "is", "weak", ".">>
    /\ DOMAIN nOut.ret.now = {}

(***************************************************************************)
(* Properties of the starter rules                                         *)
(***************************************************************************)
\* The six rules in order: whether each fires on the analysis, and its
\* relevance in hundredths.
RuleFires(analysis) ==
    << Field(analysis, "main_improvements", <<>>) # <<>>,
       Field(analysis, "maths_urgency", "") = "HIGH",
       Field(analysis, "english_urgency", "") = "HIGH"
           \/ Field(analysis, "english_urgency", "") = "MEDIUM",
       Field(analysis, "send", <<>>) # <<>>,
       Field(analysis, "leadership", <<>>) # <<>>,
       Field(analysis, "priority_order", 0) >= 2 >>

RuleScores == <<100, 95, 92, 93, 88, 90>>

RECURSIVE FiredScores(_, _)
FiredScores(fires, i) ==
    IF i > Len(fires) THEN <<>>
    ELSE (IF fires[i] THEN <<RuleScores[i]>> ELSE <<>>) \o FiredScores(fires, i + 1)

\* C25: the starters are those of the fixed rule set: relevance 1.0 iff
\* main_improvements is non-empty, 0.95 iff the mathematics urgency is HIGH,
\* 0.92 iff the english urgency is HIGH or MEDIUM, 0.93 iff there are SEND
\* issues, 0.88 iff there are leadership issues, 0.90 iff priority_order has
\* at least 2 entries; one starter per fired rule, in rule order, at most 6,
\* each with the report URL as source and a relevance in [0,1].
C25_StarterRules ==
    (mode = "starters" /\ nOut.fn = "_generate_conversation_starters") =>
        /\ [i \in DOMAIN nOut.ret |-> nOut.ret[i].relevance_score]
              = FiredScores(RuleFires(nIn.analysis), 1)
        /\ Len(nOut.ret) <= 6
        /\ \A i \in DOMAIN nOut.ret :
              /\ nOut.ret[i].source = nIn.report_url
              /\ 0 <= nOut.ret[i].relevance_score
              /\ nOut.ret[i].relevance_score <= 100

\* An analysis on which every rule fires.
C25_Witness ==
    /\ mode = "starters"
    /\ nOut.fn = "_generate_conversation_starters"
    /\ Len(nOut.ret) = 6
    /\ nOut.ret[3].relevance_score = 92
    /\ nOut.ret[4].relevance_score = 93

(***************************************************************************)
(* Properties of the shortlist                                             *)
(***************************************************************************)
ShortlistUrns(sl) == {sl[i].urn : i \in DOMAIN sl}

\* C26: after any sequence of add, remove and replace-after-regeneration the
\* shortlist holds at most MAX_SHORTLIST = 15 schools under distinct
\* identifiers; add_to_shortlist returns False and changes nothing on a
\* shortlist of 15, adding a present identifier does not increase the size,
\* removing an absent identifier changes nothing, and a school is replaced
\* only under an identifier already in the shortlist.
C26_ShortlistBounded ==
    mode = "shortlist" =>
        /\ Len(shortlist) <= 15
        /\ \A i, j \in DOMAIN shortlist : shortlist[i].urn = shortlist[j].urn => i = j
        /\ (appCall.fn = "add_to_shortlist" /\ Len(appCall.arg.before) >= 15) =>
              (appCall.ret = FALSE /\ shortlist = appCall.arg.before)
        /\ (appCall.fn = "add_to_shortlist"
              /\ appCall.arg.urn \in ShortlistUrns(appCall.arg.before)) =>
              Len(shortlist) <= Len(appCall.arg.before)
        /\ (appCall.fn = "remove_from_shortlist"
              /\ appCall.arg.urn \notin ShortlistUrns(appCall.arg.before)) =>
              shortlist = appCall.arg.before
        /\ appCall.fn = "replace" =>
              /\ ShortlistUrns(shortlist) = ShortlistUrns(appCall.arg.before)
              /\ appCall.arg.urn \notin ShortlistUrns(appCall.arg.before) =>
                    shortlist = appCall.arg.before

\* add_to_shortlist called for a 16th school.
C26_Witness ==
    /\ mode = "shortlist"
    /\ appCall.fn = "add_to_shortlist"
    /\ Len(appCall.arg.before) = 15
    /\ appCall.arg.urn \notin ShortlistUrns(appCall.arg.before)
    /\ appCall.ret = FALSE
    /\ \E i \in DOMAIN shortlist : shortlist[i].school.conversation_starters # <<>>

(***************************************************************************)
(* Properties of the result of analyze                                     *)
(***************************************************************************)
\* The step at which analyze stopped early, 0 when it ran to its end.
StoppedAt(e) ==
    IF ~NonEmpty(find_ofsted_report_url(LocatorEnv(e)).url) THEN 1
    ELSE IF e.download # "text" THEN 2
    ELSE IF e.llm.tag = "list" THEN 5
    ELSE 0

\* The fields written from the model's reply keep their initial state.
ModelFieldsInitial(r) ==
    /\ r.improvements = <<>>
    /\ r.conversation_starters = <<>>
    /\ "subject_improvements" \notin DOMAIN r
    /\ "priority_order" \notin DOMAIN r

\* The fields written from the report text keep their initial state.
TextFieldsInitial(r) ==
    /\ r.pdf_extracted = FALSE
    /\ r.rating = None
    /\ r.inspection_date = None

\* C27: every result of analyze is well-formed: pdf_extracted implies a
\* report_url; a rating, an inspection date or a starter implies
\* pdf_extracted; no report_url implies a non-empty error; and when analyze
\* stops early because a step failed or raised, error is a non-empty string
\* and the fields of the later steps keep their initial values.
C27_ResultWellFormed ==
    (mode = "ofsted" /\ result # None) =>
        /\ result.tag = "return"
        /\ result.v.pdf_extracted => result.v.report_url # None
        /\ (result.v.rating # None \/ result.v.inspection_date # None
              \/ result.v.conversation_starters # <<>>) => result.v.pdf_extracted
        /\ result.v.report_url = None => NonEmpty(result.v.error)
        /\ StoppedAt(env) # 0 =>
              /\ NonEmpty(result.v.error)
              /\ ModelFieldsInitial(result.v)
        /\ StoppedAt(env) \in {1, 2} => TextFieldsInitial(result.v)
        /\ StoppedAt(env) = 1 => result.v.report_url = None

\* The report was found and its download failed.
C27_Witness ==
    /\ mode = "ofsted" /\ result # None
    /\ StoppedAt(env) = 2
    /\ env.download = "empty"
    /\ result.v.report_url = FileUrl("site search", 0, 1)
    /\ result.v.error = Str(NoTextMsg)
    /\ result.v.pdf_extracted = FALSE

(***************************************************************************)
(* Properties of the lookup indexes                                        *)
(***************************************************************************)
\* What load() leaves and returns while the dataset is held.
Held == [cache |-> cache, by_name |-> by_name, by_urn |-> by_urn, ret |-> cache]

HeldUrns == {cache.v[i].urn : i \in DOMAIN cache.v}
HeldNames == {cache.v[i].school_name : i \in DOMAIN cache.v}

\* Both lookups give back every School of the loaded list.
RoundTrip ==
    \A i \in DOMAIN cache.v :
        /\ get_school_by_urn(Held, Str(cache.v[i].urn)) = cache.v[i]
        /\ get_school_by_name(Held, Str(cache.v[i].school_name)) = cache.v[i]

\* A key of no loaded School gives None.
NoOtherKey ==
    /\ \A urn \in QueryUrns :
          (~IsRaise(clean_urn(urn)) /\ clean_urn(urn).v \notin HeldUrns) =>
              get_school_by_urn(Held, urn) = None
    /\ \A name \in QueryNames :
          name.v \notin HeldNames => get_school_by_name(Held, name) = None

\* C28: whenever the dataset is loaded, get_school_by_urn(s.urn) and
\* get_school_by_name(s.school_name) return s for every School s of the
\* loaded list, both return None for a key of no loaded School, and each of
\* the two indexes has exactly one entry per loaded School.
C28_LookupRoundTrip ==
    (mode = "loader" /\ cache # None) =>
        /\ RoundTrip
        /\ NoOtherKey
        /\ Cardinality(DOMAIN by_urn) = Len(cache.v)
        /\ Cardinality(DOMAIN by_name) = Len(cache.v)

(***************************************************************************)
(* Properties of the dashboard view state                                  *)
(***************************************************************************)
\* What the next run of the script renders, the dataset being the same.
NextRunRenders == main(view, selected_urn, query_params, store).rendered

\* C29: the deep-dive page is rendered only for a selected identifier that
\* resolves to a loaded school; when the selected identifier, from session
\* state or from the 'urn' URL parameter, resolves to no school the run
\* reports 'School not found' and the next run renders the list view; 'Back
\* to Search' leads to the list view with no selected identifier and no
\* 'urn' URL parameter.
C29_ViewState ==
    (mode = "view" /\ appCall.fn # "none") =>
        /\ appCall.ret = "deep_dive" =>
              (NonEmpty(selected_urn) /\ selected_urn.v \in DOMAIN store)
        /\ appCall.ret = "School not found" => NextRunRenders = "list"
        /\ appCall.fn = "back" =>
              /\ appCall.ret = "list"
              /\ view = "list"
              /\ selected_urn = None
              /\ query_params = None

(***************************************************************************)
(* Properties of the combined priority                                     *)
(***************************************************************************)
FinancialPriority == get_sales_priority([financial |-> fdata, send |-> sdata])
SendPriority == get_send_priority([financial |-> fdata, send |-> sdata])

\* C30: the combined priority is HIGH iff the financial or the SEND priority
\* is HIGH, otherwise MEDIUM iff one of them is MEDIUM, otherwise LOW; it is
\* never UNKNOWN, and LOW when both priorities are UNKNOWN.
C30_CombinedPriority ==
    (mode = "combined" /\ pOut.fn = "get_combined_priority") =>
        /\ pOut.ret = "HIGH" <=> (FinancialPriority = "HIGH" \/ SendPriority = "HIGH")
        /\ pOut.ret = "MEDIUM" <=>
              /\ FinancialPriority # "HIGH" /\ SendPriority # "HIGH"
              /\ FinancialPriority = "MEDIUM" \/ SendPriority = "MEDIUM"
        /\ pOut.ret \in {"HIGH", "MEDIUM", "LOW"}
        /\ (FinancialPriority = "UNKNOWN" /\ SendPriority = "UNKNOWN") => pOut.ret = "LOW"

\* A School with financial data that holds no cost figure and with no SEND
\* row.
C30_Witness ==
    /\ mode = "combined"
    /\ pOut.fn = "get_combined_priority"
    /\ fdata # None /\ fdata.total_teaching_support_costs = None
    /\ sdata = None
    /\ FinancialPriority = "UNKNOWN" /\ SendPriority = "UNKNOWN"
    /\ pOut.ret = "LOW"

====
